---- MODULE Spec2Model ----
(***************************************************************************)
(* A model of the lookup agents of AutoAgent: the TTL caches in front of   *)
(* the table loaders (utils/cache.py, agents/staff_directory_agent.py),    *)
(* the staff agent's name matcher and column resolver, and the intent      *)
(* router (agents/operations_agent.py).                                    *)
(*                                                                         *)
(* Text is read one character at a time, so substring tests, tokenisation  *)
(* and the regular expressions are computed as the Python code computes    *)
(* them.                                                                   *)
(***************************************************************************)
EXTENDS Integers, Sequences, FiniteSets, TLC

VARIABLES
    now,             \* time.time(), in whole seconds
    ticks,           \* number of clock advances so far (bounds the run)
    last_filled_at,  \* ttl_cache: last_filled_at["t"]
    cached,          \* ttl_cache: the lru_cache(maxsize=1) around the loader
    load_df_cached,  \* staff: the lru_cache(maxsize=128) keyed by time bucket
    prev,            \* history: cache -> what the previous call on it did
    last,            \* history: what the last cache call did
    th,              \* concurrent callers of one ttl_cache: thread -> position and locals
    ev,              \* history: event counter (orders loader invocations and clears)
    calls,           \* number of calls the concurrent callers have begun
    inv_mark,        \* history: the returned invalidates, as event stamps
    table,           \* the staff CSV: its header and its Name column
    query,           \* the text the user asks
    out,             \* what the last call on the text returned
    env,             \* the configuration: which environment values and files exist
    sheets,          \* the Google workbooks: the door tabs and the camera tabs
    loaders          \* the ttl_cache of cameras.load_all and of doors._load_all

cacheVars == <<now, ticks, last_filled_at, cached, load_df_cached, prev, last>>

concVars == <<th, ev, calls, inv_mark>>

textVars == <<table, query, out>>

\* The configuration, the workbooks and the caches of their loaders.
srcVars == <<env, sheets, loaders>>

\* State the concurrent callers never touch.
seqVars == <<load_df_cached, prev, last, textVars, srcVars>>

vars == <<now, ticks, last_filled_at, cached, load_df_cached, prev, last,
          th, ev, calls, inv_mark, table, query, out, env, sheets, loaders>>

-----------------------------------------------------------------------------
(* Bounds of the model *)

\* The clock's value when the process starts (seconds since the epoch).
Epoch0 == 1000
\* How many times the clock advances in a run.
MaxTicks == 3

\* The steps by which the clock advances between calls.
Deltas == {1, 299, 300}

-----------------------------------------------------------------------------
(* Program constants *)

\* ttl_cache(ttl_seconds=300) on load_all / _load_all
ttl_seconds == 300
\* TTL of the staff CSV cache
CSV_TTL_SECONDS == 300
\* lru_cache(maxsize=1)(fn) inside ttl_cache
TtlMaxsize == 1
\* @lru_cache(maxsize=128) on _load_df_cached
StaffMaxsize == 128

\* Python's None, as a value no clock reading equals.
None == 0 - 1
Caches == {"ttl", "staff"}

-----------------------------------------------------------------------------
(* functools.lru_cache: entries oldest first, a hit moves the entry to the *)
(* end, a store into a full cache evicts the oldest entry.  A call whose   *)
(* function raises stores nothing.                                         *)

LruHas(lru, k) == \E i \in 1..Len(lru) : lru[i].key = k

LruIndex(lru, k) == CHOOSE i \in 1..Len(lru) : lru[i].key = k

LruGet(lru, k) == lru[LruIndex(lru, k)].val

LruWithout(lru, k) == SelectSeq(lru, LAMBDA e : e.key # k)

LruTouch(lru, k) == Append(LruWithout(lru, k), [key |-> k, val |-> LruGet(lru, k)])

LruStore(lru, k, v, maxsize) ==
    LET room == IF Len(lru) >= maxsize THEN Tail(lru) ELSE lru
    IN  Append(room, [key |-> k, val |-> v])

\* A call through the lru_cache wrapper at time t: a hit is served from the
\* cache; a miss invokes the function and stores its table unless it raises.
CallThrough_stores_failure(lru, k, ok, t, maxsize) ==
    IF LruHas(lru, k) THEN LruTouch(lru, k)
    ELSE LruStore(lru, k, t, maxsize)

CallThrough(lru, k, ok, t, maxsize) ==
    IF LruHas(lru, k) THEN LruTouch(lru, k)
    ELSE IF ok THEN LruStore(lru, k, t, maxsize)
    ELSE lru

\* The table a loader invocation at time t produces: it is identified by the
\* moment the invocation read the source.
Table(t) == t

\* The newest entry of a cache (None when it is empty).
Newest(lru) == IF Len(lru) = 0 THEN None ELSE lru[Len(lru)].val

\* A call's record: which operation on which cache, when, whether the loader
\* was invoked and raised, the table returned, the cache and last_filled_at as
\* they were before the call, and the previous call on the same cache.
NoPrev == [op |-> "none", raised |-> FALSE, dropped |-> None]

NoCall == [op |-> "none", cache |-> "none", at |-> None, invoked |-> FALSE,
           raised |-> FALSE, result |-> None, pre_cache |-> <<>>, pre_t |-> None,
           prev |-> NoPrev]

Summary(call) ==
    [op |-> call.op, raised |-> call.raised,
     dropped |-> IF call.op = "clear" THEN Newest(call.pre_cache) ELSE None]

-----------------------------------------------------------------------------
(* utils/cache.py: ttl_cache *)

Expired_at_ttl(t, filled) == t - filled >= ttl_seconds

\* `now - last_filled_at["t"] > ttl_seconds`
Expired(t, filled) == t - filled > ttl_seconds

wrapped_sliding_window(ok) ==
    LET expired == Expired(now, last_filled_at)
        c1      == IF expired THEN <<>> ELSE cached
        hit     == LruHas(c1, "()")
    IN  /\ last_filled_at' = now
        /\ cached' = CallThrough(c1, "()", ok, Table(now), TtlMaxsize)
        /\ last' = [op |-> "load", cache |-> "ttl", at |-> now,
                    invoked |-> ~hit, raised |-> ~hit /\ ~ok,
                    result |-> IF hit THEN LruGet(c1, "()")
                               ELSE IF ok THEN Table(now) ELSE None,
                    pre_cache |-> cached, pre_t |-> last_filled_at,
                    prev |-> prev["ttl"]]
        /\ prev' = [prev EXCEPT !["ttl"] = Summary(last')]
        /\ UNCHANGED <<now, ticks, load_df_cached, concVars, textVars, srcVars>>

\* wrapped(): clear the lru_cache when the TTL has run out, then call through
\* it.  `ok` is whether the loader, if it is invoked, returns (TRUE) or raises.
wrapped(ok) ==
    LET expired == Expired(now, last_filled_at)
        c1      == IF expired THEN <<>> ELSE cached
        t1      == IF expired THEN now ELSE last_filled_at
        hit     == LruHas(c1, "()")
    IN  /\ last_filled_at' = t1
        /\ cached' = CallThrough(c1, "()", ok, Table(now), TtlMaxsize)
        /\ last' = [op |-> "load", cache |-> "ttl", at |-> now,
                    invoked |-> ~hit, raised |-> ~hit /\ ~ok,
                    result |-> IF hit THEN LruGet(c1, "()")
                               ELSE IF ok THEN Table(now) ELSE None,
                    pre_cache |-> cached, pre_t |-> last_filled_at,
                    prev |-> prev["ttl"]]
        /\ prev' = [prev EXCEPT !["ttl"] = Summary(last')]
        /\ UNCHANGED <<now, ticks, load_df_cached, concVars, textVars, srcVars>>

cache_clear_keeps_entry ==
    /\ cached' = cached
    /\ last_filled_at' = now
    /\ last' = [NoCall EXCEPT !.op = "clear", !.cache = "ttl", !.at = now,
                              !.pre_cache = cached, !.pre_t = last_filled_at,
                              !.prev = prev["ttl"]]
    /\ prev' = [prev EXCEPT !["ttl"] = Summary(last')]
    /\ UNCHANGED <<now, ticks, load_df_cached, concVars, textVars, srcVars>>

\* wrapped.cache_clear(), reached through invalidate_cache() of cameras/doors
cache_clear ==
    /\ cached' = <<>>
    /\ last_filled_at' = 0
    /\ last' = [NoCall EXCEPT !.op = "clear", !.cache = "ttl", !.at = now,
                              !.pre_cache = cached, !.pre_t = last_filled_at,
                              !.prev = prev["ttl"]]
    /\ prev' = [prev EXCEPT !["ttl"] = Summary(last')]
    /\ UNCHANGED <<now, ticks, load_df_cached, concVars, textVars, srcVars>>

TtlLoad == \E ok \in BOOLEAN : wrapped(ok)

-----------------------------------------------------------------------------
(* agents/staff_directory_agent.py: the time-bucket cache of the staff CSV *)

\* `int(time.time() // ttl_seconds)`
Bucket(t) == t \div CSV_TTL_SECONDS

\* _load_df_ttl(filepath, CSV_TTL_SECONDS) -> _load_df_cached(filepath, bucket)
\* `ok`: the CSV file exists and reads (TRUE) or the loader raises (FALSE).
load_df_ttl(ok) ==
    LET bucket == Bucket(now)
        hit    == LruHas(load_df_cached, bucket)
    IN  /\ load_df_cached' =
              IF hit THEN LruTouch(load_df_cached, bucket)
              ELSE IF ok THEN LruStore(load_df_cached, bucket, Table(now), StaffMaxsize)
              ELSE load_df_cached
        /\ last' = [op |-> "load", cache |-> "staff", at |-> now,
                    invoked |-> ~hit, raised |-> ~hit /\ ~ok,
                    result |-> IF hit THEN LruGet(load_df_cached, bucket)
                               ELSE IF ok THEN Table(now) ELSE None,
                    pre_cache |-> load_df_cached, pre_t |-> None,
                    prev |-> prev["staff"]]
        /\ prev' = [prev EXCEPT !["staff"] = Summary(last')]
        /\ UNCHANGED <<now, ticks, last_filled_at, cached, concVars, textVars, srcVars>>

\* StaffDirectory.clear_cache()
clear_cache ==
    /\ load_df_cached' = <<>>
    /\ last' = [NoCall EXCEPT !.op = "clear", !.cache = "staff", !.at = now,
                              !.pre_cache = load_df_cached,
                              !.prev = prev["staff"]]
    /\ prev' = [prev EXCEPT !["staff"] = Summary(last')]
    /\ UNCHANGED <<now, ticks, last_filled_at, cached, concVars, textVars, srcVars>>

StaffLoad == \E ok \in BOOLEAN : load_df_ttl(ok)


-----------------------------------------------------------------------------
(* Concurrent callers of one ttl_cache.  There is no lock in utils/cache.py: *)
(* each statement of wrapped() and of cache_clear() is a step of its own,    *)
(* and the loader runs between the lru_cache's lookup and its store.         *)

\* Calls the threads make in all, and clock advances during them.
MaxCalls == 3
ConcTicks == 1

\* The threads calling the cache.
Threads == {1, 2}

\* The steps by which the clock advances between the callers' steps: within
\* the TTL, and past it.
ConcDeltas == {1, 301}

\* A table in the concurrent model: the clock when its loader invocation began,
\* the event stamps of the invocation's begin and end, and whether the cache
\* was cleared while the invocation ran.
NoTable == [at |-> None, ls |-> None, lf |-> None, x |-> FALSE]

\* A thread: its position, the clock it read, the invalidates that had returned
\* when its call began (stamps of their begin and of their clearing), the table
\* it is about to return, and whether its call invoked the loader and raised.
Idle == [pc |-> "idle", t |-> None, mark |-> None, cmark |-> None,
         tab |-> NoTable, invoked |-> FALSE, raised |-> FALSE]

InitIdle ==
    /\ th = [i \in Threads |-> Idle]
    /\ ev = 0
    /\ calls = 0
    /\ inv_mark = [begun |-> None, cleared |-> None]

\* A staff agent's answer: the kind of message, the clean name the matcher
\* returned ("" for None), the employee's display name, the candidates listed,
\* what infer_fields_from_text returned if it was called, and the fields printed.
NoAns == [kind |-> "none", clean |-> "", name |-> "", cands |-> <<>>,
          inferred |-> <<>>, fields |-> <<>>]

\* An agent's reply: its kind, the rows it shows and its text ("raise": the
\* call raised).  The em dash of the agents' lines is written " - ".
NoReply == [kind |-> "none", rows |-> <<>>, text |-> ""]

Raised == [kind |-> "raise", rows |-> <<>>, text |-> ""]

\* What a call was served: when it ran, the table it answered from, whether
\* the loader was invoked, and whether the cache held a live table before it.
NoServed == [at |-> None, table |-> None, invoked |-> FALSE, held |-> FALSE]

\* What a call on the text returned: the operation, the clean name and phase
\* of the matcher, the resolver's fields, the staff agent's answer, the agent
\* whose reply the router returned, how it was chosen, the text passed on, the
\* agents that ran in order, whether the call raised, the door and the camera
\* agent's reply, the context's refresh, and what the call was served.
NoOut == [op |-> "none", clean |-> "", phase |-> "none", fields |-> <<>>,
          ans |-> NoAns, agent |-> "none", via |-> "none", passed |-> "",
          ran |-> <<>>, raised |-> FALSE, door |-> NoReply, cam |-> NoReply,
          refresh |-> <<>>, served |-> NoServed]

InitNoText ==
    /\ table = [columns |-> <<>>, names |-> <<>>]
    /\ query = ""
    /\ out = NoOut

\* The configuration: the credentials file is there, the sheet ids are set,
\* the staff CSV exists.
EnvOk == [cred |-> TRUE, DOORS_SHEET_ID |-> TRUE, CAM_PPK1_SHEET_ID |-> TRUE,
          CAM_PPK2_SHEET_ID |-> TRUE, csv |-> TRUE]

\* A camera tab without rows, and workbooks without a tab that holds a row.
NoTab(site) == [site |-> site, ok |-> TRUE, columns |-> <<>>, rows |-> <<>>]

NoSheets == [doors |-> <<>>, cams |-> [PPK1 |-> NoTab("PPK1"), PPK2 |-> NoTab("PPK2")]]

InitNoSources ==
    /\ env = EnvOk
    /\ sheets = NoSheets
    /\ loaders = [cameras |-> [cached |-> <<>>, last_filled_at |-> 0],
                  doors |-> [cached |-> <<>>, last_filled_at |-> 0]]

-----------------------------------------------------------------------------
(* The clock *)

Tick ==
    /\ ticks < MaxTicks
    /\ \E d \in Deltas : now' = now + d
    /\ ticks' = ticks + 1
    /\ UNCHANGED <<last_filled_at, cached, load_df_cached, prev, last, concVars, textVars, srcVars>>

InitCache ==
    /\ now = Epoch0
    /\ ticks = 0
    /\ last_filled_at = 0
    /\ cached = <<>>
    /\ load_df_cached = <<>>
    /\ prev = [c \in Caches |-> NoPrev]
    /\ last = NoCall
    /\ InitIdle
    /\ InitNoText
    /\ InitNoSources

NextCache == Tick \/ TtlLoad \/ cache_clear \/ StaffLoad \/ clear_cache

SpecCache == InitCache /\ [][NextCache]_vars

-----------------------------------------------------------------------------
(* Text.  A Python str is a TLA+ string; its characters are read with SubSeq, *)
(* so `in`, lower(), strip(), re.split and the regular expressions below are  *)
(* computed character by character.                                           *)

UpperCase == "ABCDEFGHIJKLMNOPQRSTUVWXYZ"
LowerCase == "abcdefghijklmnopqrstuvwxyz"
DigitChars == "0123456789"

At(s, i) == SubSeq(s, i, i)

From(s, i) == SubSeq(s, i, Len(s))

\* s[i-1:j], which stops at the end of the text
Slice(s, i, j) == SubSeq(s, i, IF j > Len(s) THEN Len(s) ELSE j)

\* The characters of a text, as a set.
CharsOf(s) == {At(s, i) : i \in 1..Len(s)}

UpperChars == CharsOf(UpperCase)
LowerChars == CharsOf(LowerCase)
\* \d
Digits == CharsOf(DigitChars)
\* \w
WordChars == UpperChars \cup LowerChars \cup Digits \cup {"_"}
\* \s
SpaceChars == {" ", "\t", "\n"}

\* c.lower() of the upper-case letters
LowerOf ==
    [c \in UpperChars |->
        At(LowerCase, CHOOSE i \in 1..Len(UpperCase) : At(UpperCase, i) = c)]

IsUpper(c) == c \in UpperChars
IsLower(c) == c \in LowerChars
IsDigit(c) == c \in Digits
IsWordChar(c) == c \in WordChars
IsSpace(c) == c \in SpaceChars

LowerChar(c) == IF c \in UpperChars THEN LowerOf[c] ELSE c

\* str.lower()
RECURSIVE lower(_)
lower(s) == IF Len(s) = 0 THEN "" ELSE LowerChar(At(s, 1)) \o lower(From(s, 2))

\* `k in t` for strings
Contains(t, k) ==
    \E i \in 1..(Len(t) - Len(k) + 1) : SubSeq(t, i, i + Len(k) - 1) = k

\* str.strip()
RECURSIVE lstrip(_)
lstrip(s) == IF Len(s) > 0 /\ IsSpace(At(s, 1)) THEN lstrip(From(s, 2)) ELSE s

RECURSIVE rstrip(_)
rstrip(s) ==
    IF Len(s) > 0 /\ IsSpace(At(s, Len(s)))
    THEN rstrip(SubSeq(s, 1, Len(s) - 1)) ELSE s

strip(s) == lstrip(rstrip(s))

\* The position after the run of whitespace that starts at i.
RECURSIVE SkipSpace(_, _)
SkipSpace(s, i) ==
    IF i <= Len(s) /\ IsSpace(At(s, i)) THEN SkipSpace(s, i + 1) ELSE i

\* The position of the first ")" at or after i (0 when there is none).
RECURSIVE FindClose(_, _)
FindClose(s, i) ==
    IF i > Len(s) THEN 0
    ELSE IF At(s, i) = ")" THEN i ELSE FindClose(s, i + 1)

\* re.sub(r"\s*\([^)]*\)", "", name)
RECURSIVE DropParens(_)
DropParens(s) ==
    IF Len(s) = 0 THEN ""
    ELSE LET j == SkipSpace(s, 1)
             k == IF j <= Len(s) /\ At(s, j) = "(" THEN FindClose(s, j + 1) ELSE 0
         IN  IF k > 0 THEN DropParens(From(s, k + 1))
             ELSE At(s, 1) \o DropParens(From(s, 2))

\* re.sub(r"\s+", " ", name)
RECURSIVE CollapseSpace(_)
CollapseSpace(s) ==
    IF Len(s) = 0 THEN ""
    ELSE IF IsSpace(At(s, 1)) THEN " " \o CollapseSpace(From(s, SkipSpace(s, 1)))
    ELSE At(s, 1) \o CollapseSpace(From(s, 2))

\* _clean_name(name) for a str cell
clean_name(name) == lower(strip(CollapseSpace(DropParens(name))))

\* The position after the run of word characters that starts at i.
RECURSIVE SkipWord(_, _)
SkipWord(s, i) ==
    IF i <= Len(s) /\ IsWordChar(At(s, i)) THEN SkipWord(s, i + 1) ELSE i

\* _name_tokens: [t for t in re.split(r"[^\w]+", clean_name) if t]
RECURSIVE name_tokens(_)
name_tokens(s) ==
    IF Len(s) = 0 THEN <<>>
    ELSE IF IsWordChar(At(s, 1))
         THEN LET e == SkipWord(s, 1)
              IN  <<SubSeq(s, 1, e - 1)>> \o name_tokens(From(s, e))
         ELSE name_tokens(From(s, 2))

Range(seq) == {seq[i] : i \in 1..Len(seq)}

-----------------------------------------------------------------------------
(* The display names of the model's staff tables *)

\* The names a varying Name column is filled from: employees who share a
\* first name or a surname, one with a bracketed note and a doubled blank,
\* two whose clean names are equally long, one of three words.
NamePool == {"John Smith", "John  Smythe (Nights)", "John Al Lee"}

\* The Name column of the tables whose header varies; one cell is blank.
FieldTableNames == <<"Jane Smith", "", "John Smith">>

Names == NamePool \cup Range(FieldTableNames)

-----------------------------------------------------------------------------
(* agents/staff_directory_agent.py: StaffDirectory.  A loaded table `t` is  *)
(* the header of the CSV, in file order, and its Name column, one display   *)
(* name per row.  A directory `d` is the StaffDirectory built on it.        *)

\* _clean_name of every display name a table of the model holds, and
\* _name_tokens of every clean name, worked out once.
CleanOf == [n \in Names |-> clean_name(n)]

TokensOf == [c \in {CleanOf[n] : n \in Names} |-> name_tokens(c)]

\* self.df["__clean_name__"] = self.df["Name"].apply(_clean_name)
CleanNames(names) == [i \in 1..Len(names) |-> CleanOf[names[i]]]

\* self.df.columns once __init__ has added the helper column
DfColumns(columns) ==
    IF "__clean_name__" \in Range(columns) THEN columns
    ELSE columns \o <<"__clean_name__">>

\* {c.strip().lower(): c for c in self.df.columns}: a later column replaces
\* an earlier one that has the same key
ColLcMap(cols) ==
    LET keys == [i \in 1..Len(cols) |-> lower(strip(cols[i]))]
    IN  [key \in Range(keys) |->
            cols[CHOOSE i \in 1..Len(cols) :
                    /\ keys[i] = key
                    /\ \A j \in (i + 1)..Len(cols) : keys[j] # key]]

\* StaffDirectory.__init__ on a table that has a Name column
StaffDirectory(t) ==
    [columns     |-> DfColumns(t.columns),
     names       |-> t.names,
     clean_names |-> CleanNames(t.names),
     col_lc_map  |-> ColLcMap(DfColumns(t.columns))]

LongerWins_or_equal(c, best) == Len(c) >= Len(best)

\* `len(clean_name) > best_len`
LongerWins(c, best) == Len(c) > Len(best)

\* Phase 1 of find_best_name_in_text: the loop over the clean names, from row i
\* on; `best` is "" for None.
RECURSIVE FullMatch(_, _, _, _)
FullMatch(cleans, t, i, best) ==
    IF i > Len(cleans) THEN best
    ELSE LET c == cleans[i]
         IN  IF Len(c) > 0 /\ Contains(t, c) /\ LongerWins(c, best)
             THEN FullMatch(cleans, t, i + 1, c)
             ELSE FullMatch(cleans, t, i + 1, best)

\* sum(1 for tok in tokens if tok in q_tokens)
RECURSIVE Matched(_, _)
Matched(tokens, q_tokens) ==
    IF tokens = <<>> THEN 0
    ELSE (IF Head(tokens) \in q_tokens THEN 1 ELSE 0) + Matched(Tail(tokens), q_tokens)

\* The (label, matched_tokens, total_tokens) of the rows that share a token
\* with the query, in table order; labels[i] is what row i is listed as.
RECURSIVE TokenHits(_, _, _, _)
TokenHits(cleans, labels, q_tokens, i) ==
    IF i > Len(cleans) THEN <<>>
    ELSE LET tokens  == TokensOf[cleans[i]]
             matched == Matched(tokens, q_tokens)
         IN  (IF tokens # <<>> /\ matched > 0
              THEN <<[name |-> labels[i], matched |-> matched, total |-> Len(tokens)]>>
              ELSE <<>>)
             \o TokenHits(cleans, labels, q_tokens, i + 1)

\* key=lambda x: (x[1], x[2]): tuple comparison
KeyGreater(a, b) ==
    a.matched > b.matched \/ (a.matched = b.matched /\ a.total > b.total)

\* list.sort(key=..., reverse=True): stable, largest key first
RECURSIVE InsertDesc(_, _)
InsertDesc(sorted, e) ==
    IF sorted = <<>> THEN <<e>>
    ELSE IF KeyGreater(e, Head(sorted)) THEN <<e>> \o sorted
    ELSE <<Head(sorted)>> \o InsertDesc(Tail(sorted), e)

RECURSIVE SortDesc(_)
SortDesc(hits) ==
    IF hits = <<>> THEN <<>>
    ELSE InsertDesc(SortDesc(SubSeq(hits, 1, Len(hits) - 1)), hits[Len(hits)])

Unambiguous_or_tied(hits) ==
    Len(hits) = 1 \/ hits[1].matched >= hits[2].matched

\* `len(token_hits) == 1 or top[1] > token_hits[1][1]`
Unambiguous(hits) ==
    Len(hits) = 1 \/ hits[1].matched > hits[2].matched

\* Phase 2 of find_best_name_in_text
TokenMatch(cleans, t) ==
    LET hits == SortDesc(TokenHits(cleans, cleans, Range(name_tokens(t)), 1))
    IN  IF hits = <<>> THEN ""
        ELSE IF Unambiguous(hits) THEN hits[1].name
        ELSE ""

\* find_best_name_in_text(text): the clean name returned ("" for None) and
\* the phase that returned it
find_best_name_in_text(d, text) ==
    LET t    == lower(text)
        best == FullMatch(d.clean_names, t, 1, "")
    IN  IF best # "" THEN [name |-> best, phase |-> "A"]
        ELSE [name |-> TokenMatch(d.clean_names, t), phase |-> "B"]

FirstN(seq, n) == SubSeq(seq, 1, IF Len(seq) < n THEN Len(seq) ELSE n)

\* list_name_candidates(text, limit)
list_name_candidates(d, text, limit) ==
    LET scored == SortDesc(TokenHits(d.clean_names, d.names,
                                     Range(name_tokens(lower(text))), 1))
        listed == FirstN(scored, limit)
    IN  [i \in 1..Len(listed) |-> listed[i].name]

\* get_record_by_clean_name: the first row with that clean name (0 for None)
get_record_by_clean_name(d, clean) ==
    LET rows == {i \in 1..Len(d.clean_names) : d.clean_names[i] = clean}
    IN  IF rows = {} THEN 0 ELSE CHOOSE i \in rows : \A j \in rows : i <= j

-----------------------------------------------------------------------------
(* agents/staff_directory_agent.py: the alias vocabulary, in dict order *)

COLUMN_ALIASES_SINGLE ==
    << [k |-> "psa licence",             v |-> "PSA Licence"],
       [k |-> "psa license",             v |-> "PSA Licence"],
       [k |-> "psa",                     v |-> "PSA Licence"],
       [k |-> "psa number",              v |-> "PSA Licence"],
       [k |-> "psa no",                  v |-> "PSA Licence"],
       [k |-> "psa id",                  v |-> "PSA Licence"],
       [k |-> "psa licence expiry date", v |-> "PSA Licence exp. DD/MM/YYYY"],
       [k |-> "psa licence expiry",      v |-> "PSA Licence exp. DD/MM/YYYY"],
       [k |-> "psa license expiry",      v |-> "PSA Licence exp. DD/MM/YYYY"],
       [k |-> "psa expiry",              v |-> "PSA Licence exp. DD/MM/YYYY"],
       [k |-> "expiry",                  v |-> "PSA Licence exp. DD/MM/YYYY"],
       [k |-> "expiration",              v |-> "PSA Licence exp. DD/MM/YYYY"],
       [k |-> "contact number",          v |-> "Contact Number"],
       [k |-> "emergency contact",       v |-> "Contact Number in case of Emergency"],
       [k |-> "first aid",               v |-> "First Aid Certified"],
       [k |-> "first aid expiry",        v |-> "Date of first Aid expire"],
       [k |-> "badge",                   v |-> "Received Access Badge"],
       [k |-> "radio earpiece",          v |-> "Radio Earpiece Received"],
       [k |-> "safepass",                v |-> "Safepass"],
       [k |-> "ert training",            v |-> "Emergency Response Team (ERT) Training"],
       [k |-> "manual handling",         v |-> "Manual Handling Training"],
       [k |-> "navy coat",               v |-> "Navy Blue winter Coat Received 2024"],
       [k |-> "bgu sign off",            v |-> "BGU Sign Off"],
       [k |-> "l-dap",                   v |-> "L-Dap"],
       [k |-> "ldap",                    v |-> "L-Dap"],
       [k |-> "pin",                     v |-> "Employee PIN (0****)"],
       [k |-> "employee pin",            v |-> "Employee PIN (0****)"] >>

COLUMN_ALIAS_GROUPS ==
    << [k |-> "psa",         v |-> <<"PSA Licence", "PSA Licence exp. DD/MM/YYYY">>],
       [k |-> "psa licence", v |-> <<"PSA Licence", "PSA Licence exp. DD/MM/YYYY">>],
       [k |-> "psa license", v |-> <<"PSA Licence", "PSA Licence exp. DD/MM/YYYY">>] >>

-----------------------------------------------------------------------------
(* agents/staff_directory_agent.py: StaffDirectory, column resolution *)

columns_present_unfiltered(d, wanted) == wanted

\* _columns_present(wanted)
columns_present(d, wanted) ==
    LET real(w) == IF lower(strip(w)) \in DOMAIN d.col_lc_map
                   THEN d.col_lc_map[lower(strip(w))] ELSE ""
    IN  SelectSeq([i \in 1..Len(wanted) |-> real(wanted[i])], LAMBDA r : r # "")

\* [k for k in COLUMN_ALIASES_SINGLE if ("expiry" in k or "expiration" in k)]
explicit_expiry_hits ==
    SelectSeq(COLUMN_ALIASES_SINGLE,
              LAMBDA a : Contains(a.k, "expiry") \/ Contains(a.k, "expiration"))

\* The first entry of a vocabulary whose phrase the text contains (0: none).
FirstIn(vocabulary, t) ==
    LET at == {i \in 1..Len(vocabulary) : Contains(t, vocabulary[i].k)}
    IN  IF at = {} THEN 0 ELSE CHOOSE i \in at : \A j \in at : i <= j

\* Rule 3's hits: the target of every single alias the text contains
SingleHits(t) ==
    LET hit == SelectSeq(COLUMN_ALIASES_SINGLE, LAMBDA a : Contains(t, a.k))
    IN  [i \in 1..Len(hit) |-> hit[i].v]

\* [c for c in self.df.columns if ("exp" in c.lower() or "expiry" in c.lower())]
expiry_like(d) ==
    SelectSeq(d.columns,
              LAMBDA c : LET l == lower(c)
                         IN  Contains(l, "exp") \/ Contains(l, "expiry"))

infer_fields_group_first(d, text) ==
    LET t == lower(text)
        e == FirstIn(explicit_expiry_hits, t)
        g == FirstIn(COLUMN_ALIAS_GROUPS, t)
    IN  IF g # 0 THEN columns_present(d, COLUMN_ALIAS_GROUPS[g].v)
        ELSE IF e # 0 THEN columns_present(d, <<explicit_expiry_hits[e].v>>)
        ELSE columns_present(d, SingleHits(t))

\* infer_fields_from_text(text)
infer_fields_from_text(d, text) ==
    LET t == lower(text)
        e == FirstIn(explicit_expiry_hits, t)
        g == FirstIn(COLUMN_ALIAS_GROUPS, t)
        hits == SingleHits(t)
        like == expiry_like(d)
    IN  IF e # 0 THEN columns_present(d, <<explicit_expiry_hits[e].v>>)
        ELSE IF g # 0 THEN columns_present(d, COLUMN_ALIAS_GROUPS[g].v)
        ELSE IF hits # <<>> THEN columns_present(d, hits)
        ELSE IF like # <<>> THEN columns_present(d, <<like[1]>>)
        ELSE <<>>

-----------------------------------------------------------------------------
(* agents/staff_directory_agent.py: staff_directory_agent, once the table *)
(* is loaded                                                               *)

\* list_name_candidates(query, limit=5)
CandidateLimit == 5

\* The agent's answer when an employee is matched: the fields it prints, or
\* the prompt for a field.
FieldsAnswer(d, q, row) ==
    LET inferred == infer_fields_from_text(d, q)
        fields   == IF inferred = <<>> /\ Contains(lower(q), "psa")
                    THEN columns_present(d, <<"PSA Licence", "PSA Licence exp. DD/MM/YYYY">>)
                    ELSE inferred
    IN  [NoAns EXCEPT !.kind = IF fields = <<>> THEN "prompt" ELSE "values",
                      !.clean = d.clean_names[row], !.name = d.names[row],
                      !.inferred = inferred, !.fields = fields]

\* The agent's answer on table t: "raise" when the table has no Name column.
StaffAnswer(t, q) ==
    IF "Name" \notin Range(t.columns) THEN [NoAns EXCEPT !.kind = "raise"]
    ELSE
    LET d     == StaffDirectory(t)
        clean == find_best_name_in_text(d, q).name
        cands == list_name_candidates(d, q, CandidateLimit)
        row   == get_record_by_clean_name(d, clean)
    IN  IF clean = ""
        THEN IF cands # <<>>
             THEN [NoAns EXCEPT !.kind = "candidates", !.cands = cands]
             ELSE [NoAns EXCEPT !.kind = "not_found"]
        ELSE IF row = 0 THEN [NoAns EXCEPT !.kind = "no_entry", !.clean = clean]
        ELSE FieldsAnswer(d, q, row)

-----------------------------------------------------------------------------
(* agents/operations_agent.py: the intent heuristics *)

STAFF_KEYWORDS ==
    <<"psa", "contact", "pin", "ldap", "l-dap", "first aid", "safepass",
      "badge", "earpiece", "emergency", "licence", "license", "expiry", "expiration">>

CAMERA_KEYWORDS == <<"camera", "cctv", "flir", "ppk1", "ppk 1", "ppk2", "ppk 2">>

DOOR_KEYWORDS ==
    <<"door", "reader", "badge reader", "c-cure", "ccure", "ccure 900", "access">>

\* any(k in t for k in keywords)
AnyIn(keywords, t) == \E i \in 1..Len(keywords) : Contains(t, keywords[i])

\* \b at the gap before position i (i = Len(q) + 1: the end of the text)
Boundary(q, i) ==
    LET before == i > 1 /\ IsWordChar(At(q, i - 1))
        after  == i <= Len(q) /\ IsWordChar(At(q, i))
    IN  before # after

AllDigits(q, i, j) == \A p \in i..j : IsDigit(At(q, p))

\* RE_DOOR_CODE.search(q): \b\d{2,4}[A-Z]\b, ignoring case
RE_DOOR_CODE(q) ==
    \E i \in 1..Len(q) : \E n \in 2..4 :
        /\ i + n <= Len(q)
        /\ Boundary(q, i)
        /\ AllDigits(q, i, i + n - 1)
        /\ (IsUpper(At(q, i + n)) \/ IsLower(At(q, i + n)))
        /\ Boundary(q, i + n + 1)

\* RE_PURE_NUMBER.match(q): ^\D*(\d{2,6})\D*$ matches when the digits of q
\* are one unbroken run of 2 to 6; the length of group 1 (0: no match)
RE_PURE_NUMBER(q) ==
    LET digits == {p \in 1..Len(q) : IsDigit(At(q, p))}
        n      == Cardinality(digits)
    IN  IF /\ n >= 2 /\ n <= 6
           /\ \A p1 \in digits, p2 \in digits : p2 - p1 < n
        THEN n ELSE 0

\* The position after the run of lower-case letters that starts at i.
RECURSIVE SkipLower(_, _)
SkipLower(q, i) ==
    IF i <= Len(q) /\ IsLower(At(q, i)) THEN SkipLower(q, i + 1) ELSE i

\* [A-Z][a-z]+ at position i: the position after the match (0: no match)
CapWordEnd(q, i) ==
    IF i < Len(q) /\ IsUpper(At(q, i)) /\ IsLower(At(q, i + 1))
    THEN SkipLower(q, i + 1) ELSE 0

\* (?:\s+[A-Z][a-z]+) at position i: the position after the match (0: no match)
SpacedCapWordEnd(q, i) ==
    IF i <= Len(q) /\ IsSpace(At(q, i)) THEN CapWordEnd(q, SkipSpace(q, i)) ELSE 0

\* re.search(r"\bfor\s+[A-Z][a-z]+(?:\s+[A-Z][a-z]+)+", q)
RE_FOR_NAME(q) ==
    \E i \in 1..Len(q) :
        /\ Boundary(q, i)
        /\ Slice(q, i, i + 2) = "for"
        /\ LET first == SpacedCapWordEnd(q, i + 3)
           IN  first # 0 /\ SpacedCapWordEnd(q, first) # 0

\* re.findall(r"\b[A-Z][a-z]+", q)
cap_words(q) == {i \in 1..Len(q) : Boundary(q, i) /\ CapWordEnd(q, i) # 0}

looks_like_door_query(q) == AnyIn(DOOR_KEYWORDS, lower(q)) \/ RE_DOOR_CODE(q)

looks_like_camera_query(q) ==
    \/ AnyIn(CAMERA_KEYWORDS, lower(q))
    \/ (RE_PURE_NUMBER(q) # 0 /\ RE_PURE_NUMBER(q) <= 4)

looks_like_staff_query(q) ==
    \/ AnyIn(STAFF_KEYWORDS, lower(q))
    \/ RE_FOR_NAME(q)
    \/ Cardinality(cap_words(q)) >= 2

\* lower.startswith(prefix)
StartsWith(s, prefix) == Slice(s, 1, Len(prefix)) = prefix

\* q.split(":", 1)[1].strip()
RECURSIVE AfterColon(_)
AfterColon(q) ==
    IF Len(q) = 0 THEN ""
    ELSE IF At(q, 1) = ":" THEN strip(From(q, 2)) ELSE AfterColon(From(q, 2))

PrefixAgent_case_sensitive(q) ==
    IF StartsWith(q, "staff:") THEN "staff"
    ELSE IF StartsWith(q, "camera:") \/ StartsWith(q, "cameras:") THEN "camera"
    ELSE IF StartsWith(q, "door:") \/ StartsWith(q, "doors:") THEN "door"
    ELSE "none"

\* The agent an explicit prefix names ("none": no prefix)
PrefixAgent(q) ==
    LET l == lower(q)
    IN  IF StartsWith(l, "staff:") THEN "staff"
        ELSE IF StartsWith(l, "camera:") \/ StartsWith(l, "cameras:") THEN "camera"
        ELSE IF StartsWith(l, "door:") \/ StartsWith(l, "doors:") THEN "door"
        ELSE "none"

HeuristicAgent_staff_first(q) ==
    IF looks_like_staff_query(q) THEN "staff"
    ELSE IF looks_like_door_query(q) THEN "door"
    ELSE IF looks_like_camera_query(q) THEN "camera"
    ELSE "none"

\* The agent the heuristics choose, tried door, camera, staff ("none": none fires)
HeuristicAgent(q) ==
    IF looks_like_door_query(q) THEN "door"
    ELSE IF looks_like_camera_query(q) THEN "camera"
    ELSE IF looks_like_staff_query(q) THEN "staff"
    ELSE "none"

-----------------------------------------------------------------------------
(* data_access/doors.py.  A door worksheet is read under the headers the    *)
(* column choice of _ws_to_df takes first: "Door ID", "Description          *)
(* PerC-Cure", "Location Description"; a row holds the cells of these three. *)

STOPWORDS ==
    { "where", "is", "are", "the", "a", "an", "of", "for", "to", "at", "in",
      "door", "reader", "location", "please", "tell", "me", "what", "which" }

\* [0-9a-z]
AlnumLower == LowerChars \cup Digits
\* [a-z0-9_]
TokenChars == AlnumLower \cup {"_"}

\* The position after the run of characters outside `chars` that starts at i.
RECURSIVE SkipOthers(_, _, _)
SkipOthers(s, i, chars) ==
    IF i <= Len(s) /\ At(s, i) \notin chars THEN SkipOthers(s, i + 1, chars) ELSE i

\* The position after the run of characters of `chars` that starts at i.
RECURSIVE SkipRun(_, _, _)
SkipRun(s, i, chars) ==
    IF i <= Len(s) /\ At(s, i) \in chars THEN SkipRun(s, i + 1, chars) ELSE i

\* re.sub(r"[^0-9a-z]+", " ", s)
RECURSIVE BlankOthers(_)
BlankOthers(s) ==
    IF Len(s) = 0 THEN ""
    ELSE IF At(s, 1) \in AlnumLower THEN At(s, 1) \o BlankOthers(From(s, 2))
    ELSE " " \o BlankOthers(From(s, SkipOthers(s, 1, AlnumLower)))

\* _norm_text(x) for a str
norm_text(x) == strip(CollapseSpace(BlankOthers(lower(x))))

\* re.findall of a character class with +: the maximal runs, left to right
RECURSIVE Runs(_, _)
Runs(s, chars) ==
    IF Len(s) = 0 THEN <<>>
    ELSE IF At(s, 1) \in chars
         THEN LET e == SkipRun(s, 1, chars)
              IN  <<SubSeq(s, 1, e - 1)>> \o Runs(From(s, e), chars)
         ELSE Runs(From(s, 2), chars)

\* t.replace("_", " ")
RECURSIVE UnderscoresToBlanks(_)
UnderscoresToBlanks(t) ==
    IF Len(t) = 0 THEN ""
    ELSE (IF At(t, 1) = "_" THEN " " ELSE At(t, 1)) \o UnderscoresToBlanks(From(t, 2))

\* str.split(): the runs of characters that are not whitespace
RECURSIVE split(_)
split(s) ==
    LET i == SkipSpace(s, 1)
    IN  IF i > Len(s) THEN <<>>
        ELSE LET e == SkipOthers(s, i, SpaceChars)
             IN  <<SubSeq(s, i, e - 1)>> \o split(From(s, e))

\* The parts of the tokens of `toks` from position i on, in order.
RECURSIVE Flat(_, _)
Flat(toks, i) ==
    IF i > Len(toks) THEN <<>> ELSE split(toks[i]) \o Flat(toks, i + 1)

\* _extract_tokens(q)
extract_tokens(q) ==
    LET raw  == Runs(lower(q), TokenChars)
        kept == SelectSeq(raw, LAMBDA t : t \notin STOPWORDS)
        toks == [i \in 1..Len(kept) |-> UnderscoresToBlanks(kept[i])]
    IN  SelectSeq(Flat(toks, 1), LAMBDA t : Len(t) > 1)

\* _ws_to_df(tab) on a worksheet that reads: the stripped cells, the tab, and
\* the normalized fields
ws_to_df(ws) ==
    [i \in 1..Len(ws.rows) |->
        LET door == strip(ws.rows[i].door)
            desc == strip(ws.rows[i].description)
            loc  == strip(ws.rows[i].location)
        IN  [door |-> door, description |-> desc, location |-> loc,
             tab |-> ws.tab, door_norm |-> norm_text(door),
             desc_norm |-> norm_text(desc), loc_norm |-> norm_text(loc)]]

\* get_worksheet(sheet_id, tab) and ws.get_all_records() return: the
\* credentials are there and the worksheet reads
Reads(e, ws) == e.cred /\ ws.ok

\* The frames of the tabs from position i on, concatenated; a tab whose read
\* raises is skipped.
RECURSIVE DoorFrames(_, _, _)
DoorFrames(e, tabs, i) ==
    IF i > Len(tabs) THEN [raised |-> FALSE, rows |-> <<>>]
    ELSE LET rest == DoorFrames(e, tabs, i + 1)
         IN  IF Reads(e, tabs[i])
             THEN [raised |-> FALSE, rows |-> ws_to_df(tabs[i]) \o rest.rows]
             ELSE rest

\* doors._load_all(): raises without a sheet id, else the rows of the tabs
\* that read
doors_load_all(e, book) ==
    IF ~e.DOORS_SHEET_ID THEN [raised |-> TRUE, rows |-> <<>>]
    ELSE DoorFrames(e, book.doors, 1)

\* hits[["door", "description", "location", "__tab__"]].head(limit)
DoorRecords(hits, limit) ==
    LET top == FirstN(hits, limit)
    IN  [i \in 1..Len(top) |->
            [door |-> top[i].door, description |-> top[i].description,
             location |-> top[i].location, tab |-> top[i].tab]]

\* find_by_text(query, limit) on the loaded frame df
find_by_text(df, q0, limit) ==
    LET q  == strip(q0)
        qn == norm_text(q)
    IN  IF Len(df) = 0 \/ q = "" THEN <<>>
        ELSE DoorRecords(
                SelectSeq(df, LAMBDA r : \/ Contains(r.door_norm, qn)
                                         \/ Contains(r.desc_norm, qn)
                                         \/ Contains(r.loc_norm, qn)),
                limit)

\* re.sub(r"\s+", "_", q_raw)
RECURSIVE WhitespaceToUnderscore(_)
WhitespaceToUnderscore(s) ==
    IF Len(s) = 0 THEN ""
    ELSE IF IsSpace(At(s, 1))
         THEN "_" \o WhitespaceToUnderscore(From(s, SkipSpace(s, 1)))
         ELSE At(s, 1) \o WhitespaceToUnderscore(From(s, 2))

\* re.sub(r"[_]+", " ", q_raw)
RECURSIVE UnderscoreRunsToBlank(_)
UnderscoreRunsToBlank(s) ==
    IF Len(s) = 0 THEN ""
    ELSE IF At(s, 1) = "_"
         THEN " " \o UnderscoreRunsToBlank(From(s, SkipRun(s, 1, {"_"})))
         ELSE At(s, 1) \o UnderscoreRunsToBlank(From(s, 2))

\* contains_all(text, toks)
contains_all(text, toks) == \A i \in 1..Len(toks) : Contains(text, toks[i])

\* count_hits(text, toks)
count_hits(text, toks) == Cardinality({i \in 1..Len(toks) : Contains(text, toks[i])})

\* `max(2, len(tokens) - 1)`
HitsNeeded_two(tokens) == 2

HitsNeeded(tokens) == IF Len(tokens) - 1 > 2 THEN Len(tokens) - 1 ELSE 2

\* row_match(row) of find_location
row_match(r, phrase_underscore, phrase_spaces, tokens) ==
    LET combined == r.door_norm \o " " \o r.desc_norm \o " " \o r.loc_norm
    IN  \/ phrase_underscore # "" /\ Contains(combined, phrase_underscore)
        \/ phrase_spaces # "" /\ Contains(combined, phrase_spaces)
        \/ contains_all(r.door_norm, tokens)
        \/ contains_all(r.desc_norm, tokens)
        \/ contains_all(r.loc_norm, tokens)
        \/ count_hits(combined, tokens) >= HitsNeeded(tokens)

\* find_location(query, limit) on the loaded frame df
find_location(df, q0, limit) ==
    LET q_raw  == lower(strip(q0))
        pu     == WhitespaceToUnderscore(q_raw)
        ps     == UnderscoreRunsToBlank(q_raw)
        tokens == extract_tokens(q_raw)
    IN  IF Len(df) = 0 THEN <<>>
        ELSE IF Len(tokens) = 0 THEN find_by_text(df, q0, limit)
        ELSE DoorRecords(SelectSeq(df, LAMBDA r : row_match(r, pu, ps, tokens)), limit)

-----------------------------------------------------------------------------
(* data_access/cameras.py.  A camera frame is its header and its rows; a row *)
(* holds its site label and the cells under the header.  The two tabs of a   *)
(* workbook carry the same header.                                           *)

\* The patterns Series.str.contains compiles here are made of letters,
\* digits, blanks, "(" and ")", and "?" after a letter or a digit: re.compile
\* raises when the parentheses do not balance.
RECURSIVE ParensBalance(_, _, _)
ParensBalance(pat, i, depth) ==
    IF i > Len(pat) THEN depth = 0
    ELSE IF At(pat, i) = "(" THEN ParensBalance(pat, i + 1, depth + 1)
    ELSE IF At(pat, i) = ")" THEN depth > 0 /\ ParensBalance(pat, i + 1, depth - 1)
    ELSE ParensBalance(pat, i + 1, depth)

re_error(pat) == ~ParensBalance(pat, 1, 0)

\* The pattern from position j on matches the text at position i: a group's
\* parentheses match nothing, "?" makes the character before it optional.
RECURSIVE MatchAt(_, _, _, _)
MatchAt(text, i, pat, j) ==
    IF j > Len(pat) THEN TRUE
    ELSE IF At(pat, j) \in {"(", ")"} THEN MatchAt(text, i, pat, j + 1)
    ELSE IF j < Len(pat) /\ At(pat, j + 1) = "?"
         THEN \/ i <= Len(text) /\ At(text, i) = At(pat, j) /\ MatchAt(text, i + 1, pat, j + 2)
              \/ MatchAt(text, i, pat, j + 2)
    ELSE i <= Len(text) /\ At(text, i) = At(pat, j) /\ MatchAt(text, i + 1, pat, j + 1)

\* `k in t` when the pattern is the text itself
IsLiteral(pat) == \A i \in 1..Len(pat) : At(pat, i) \notin {"(", ")", "?"}

\* re.search(pat, text) is not None, for a pattern that compiles
re_search(text, pat) ==
    IF IsLiteral(pat) THEN Contains(text, pat)
    ELSE \E i \in 1..(Len(text) + 1) : MatchAt(text, i, pat, 1)

NUMBER_CANDIDATES ==
    << "Camera Number", "Number", "#", "ID",
       "Cam Number", "Cam No", "Camera #", "Camera ID" >>

NAME_CANDIDATES ==
    << "Camera Name", "Name", "Description", "Camera Description",
       "Cam Name", "Cam Description", "Title" >>

\* The first i with P(i) in 1..n (0 when there is none)
FirstIndex(n, P(_)) ==
    IF \E i \in 1..n : P(i) THEN CHOOSE i \in 1..n : P(i) /\ \A j \in 1..(i - 1) : ~P(j)
    ELSE 0

\* _pick_column(cols, *candidates): an exact match of a candidate first (the
\* last column of that name, as lc_map keeps it), then the first column that
\* contains a candidate; "" for None
pick_column(cols, candidates) ==
    LET lc    == [i \in 1..Len(cols) |-> lower(cols[i])]
        lcand == [k \in 1..Len(candidates) |-> lower(candidates[k])]
        Exact(k) == \E i \in 1..Len(cols) : lc[i] = lcand[k]
        Sub(i)   == \E k \in 1..Len(candidates) : Contains(lc[i], lcand[k])
        e == FirstIndex(Len(candidates), Exact)
        s == FirstIndex(Len(cols), Sub)
    IN  IF e # 0
        THEN cols[CHOOSE i \in 1..Len(cols) :
                    lc[i] = lcand[e] /\ \A j \in (i + 1)..Len(cols) : lc[j] # lcand[e]]
        ELSE IF s # 0 THEN cols[s] ELSE ""

\* _parse_site_from_query(q); "" for None
parse_site_from_query(q) ==
    LET t == lower(q)
    IN  IF Contains(t, "ppk1") \/ Contains(t, "ppk 1") THEN "PPK1"
        ELSE IF Contains(t, "ppk2") \/ Contains(t, "ppk 2") THEN "PPK2"
        ELSE ""

\* The digits of the run that starts at i, at most n of them.
DigitRun(s, i, n) ==
    LET e == SkipRun(s, i, Digits)
    IN  SubSeq(s, i, (IF e - i > n THEN i + n ELSE e) - 1)

\* The group of _extract_cam_number's pattern at position g:
\* #[ ]*\d{1,4}  |  \(\s*\d{1,4}\s*\)  |  \b\d{1,4}\b ; its digits, "" for no match
CamNumberAt(s, g) ==
    IF g > Len(s) THEN ""
    ELSE IF At(s, g) = "#"
         THEN DigitRun(s, SkipRun(s, g + 1, {" "}), 4)
    ELSE IF At(s, g) = "("
         THEN LET d == SkipSpace(s, g + 1)
                  e == SkipRun(s, d, Digits)
                  c == SkipSpace(s, e)
              IN  IF e > d /\ e - d <= 4 /\ c <= Len(s) /\ At(s, c) = ")"
                  THEN SubSeq(s, d, e - 1) ELSE ""
    ELSE IF IsDigit(At(s, g))
         THEN LET e == SkipRun(s, g, Digits)
              IN  IF Boundary(s, g) /\ e - g <= 4 /\ Boundary(s, e)
                  THEN SubSeq(s, g, e - 1) ELSE ""
    ELSE ""

\* _extract_cam_number(text): the leftmost match after the start of the text
\* or after a character that is no digit; "" for None
extract_cam_number(text) ==
    LET Hit(g) == (g = 1 \/ ~IsDigit(At(text, g - 1))) /\ CamNumberAt(text, g) # ""
        g == FirstIndex(Len(text), Hit)
    IN  IF g = 0 THEN "" ELSE CamNumberAt(text, g)

\* _digits_from_query(q): re.search(r"\b(\d{1,6})\b", q); "" for None
digits_from_query(q) ==
    LET Hit(i) == /\ IsDigit(At(q, i)) /\ Boundary(q, i)
                  /\ LET e == SkipRun(q, i, Digits)
                     IN  e - i <= 6 /\ Boundary(q, e)
        i == FirstIndex(Len(q), Hit)
    IN  IF i = 0 THEN "" ELSE SubSeq(q, i, SkipRun(q, i, Digits) - 1)

\* _read_one(sheet_id, tab, site_label) on a worksheet that reads: no frame
\* without rows, else the header stripped and the rows labelled
read_one(ws) ==
    IF Len(ws.rows) = 0 THEN [columns |-> <<>>, rows |-> <<>>]
    ELSE [columns |-> [i \in 1..Len(ws.columns) |-> strip(ws.columns[i])],
          rows |-> [i \in 1..Len(ws.rows) |-> [site |-> ws.site, cells |-> ws.rows[i]]]]

\* pd.concat(dfs, ignore_index=True)
concat(a, b) ==
    [columns |-> IF Len(a.columns) > 0 THEN a.columns ELSE b.columns,
     rows |-> a.rows \o b.rows]

\* cameras.load_all(): raises without the first sheet id and when a tab it
\* reads raises; the second tab is read when its sheet id is set
load_all(e, book) ==
    LET none == [columns |-> <<>>, rows |-> <<>>]
    IN  IF ~e.CAM_PPK1_SHEET_ID \/ ~Reads(e, book.cams.PPK1)
        THEN [raised |-> TRUE, df |-> none]
        ELSE IF ~e.CAM_PPK2_SHEET_ID
        THEN [raised |-> FALSE, df |-> read_one(book.cams.PPK1)]
        ELSE IF ~Reads(e, book.cams.PPK2)
        THEN [raised |-> TRUE, df |-> none]
        ELSE [raised |-> FALSE,
              df |-> concat(read_one(book.cams.PPK1), read_one(book.cams.PPK2))]

\* row.get(col): the cell under a header, the label under "__site__"
CellOf(df, row, col) ==
    IF col = "__site__" THEN row.site
    ELSE row.cells[CHOOSE i \in 1..Len(df.columns) : df.columns[i] = col]

\* The records of `recs` from position i on whose key is not in `seen`.
RECURSIVE Unseen(_, _, _)
Unseen(recs, i, seen) ==
    IF i > Len(recs) THEN <<>>
    ELSE IF recs[i] \in seen THEN Unseen(recs, i + 1, seen)
    ELSE <<recs[i]>> \o Unseen(recs, i + 1, seen \cup {recs[i]})

\* The number search() reports for a row:
\* `if wanted_digits: cam_no = wanted_digits`, else the number parsed from the row
CamNumber(wanted, parsed) == IF wanted # "" THEN wanted ELSE parsed

\* `a or b` for strings: the first that is not empty
Or(a, b) == IF a # "" THEN a ELSE b

\* The record of a header h and the value v under it in a row of a site, and
\* whether the query is in one of them
TitleRecord(site, h, v, ql, wanted) ==
    [site |-> site,
     number |-> CamNumber(wanted, Or(extract_cam_number(h), extract_cam_number(v))),
     name |-> IF Len(h) >= Len(v) THEN h ELSE v,
     hit |-> (h # "" \/ v # "") /\ (Contains(lower(h), ql) \/ Contains(lower(v), ql))]

\* The keys (site, number, name) of records
Keys(recs) ==
    [k \in 1..Len(recs) |->
        [site |-> recs[k].site, number |-> recs[k].number, name |-> recs[k].name]]

\* The header-and-value matches of one row
RowTitles(df, row, cols, ql, wanted) ==
    Keys(SelectSeq([k \in 1..Len(cols) |->
                       TitleRecord(row.site, strip(cols[k]),
                                   strip(CellOf(df, row, cols[k])), ql, wanted)],
                   LAMBDA r : r.hit))

\* The header-and-value matches of the rows from position i on (the layout
\* without a number or a name column).
RECURSIVE TitleMatches(_, _, _, _, _)
TitleMatches(df, hits, i, ql, wanted) ==
    IF i > Len(hits) THEN <<>>
    ELSE RowTitles(df, hits[i], df.columns \o <<"__site__">>, ql, wanted)
         \o TitleMatches(df, hits, i + 1, ql, wanted)

\* The number parsed from a row: from the number column, else from the name
\* column; "" when neither gives one
RowNumber(df, r, col_num, col_name) ==
    Or(IF col_num = "" THEN "" ELSE extract_cam_number(CellOf(df, r, col_num)),
       IF col_name = "" THEN "" ELSE extract_cam_number(CellOf(df, r, col_name)))

\* The name displayed for a row: the stripped name cell, else the stripped
\* number cell
RowName(df, r, col_num, col_name) ==
    Or(IF col_name = "" THEN "" ELSE strip(CellOf(df, r, col_name)),
       IF col_num = "" THEN "" ELSE strip(CellOf(df, r, col_num)))

\* df[mask], else df[any_mask]: the rows whose number or name cell matches
\* the pattern ql, else the rows a cell of which matches it
Hits(df, col_num, col_name, ql) ==
    LET cols == df.columns \o <<"__site__">>
        Primary(r) ==
            \/ col_num # "" /\ re_search(lower(CellOf(df, r, col_num)), ql)
            \/ col_name # "" /\ re_search(lower(CellOf(df, r, col_name)), ql)
        AnyCell(r) == \E k \in 1..Len(cols) : re_search(lower(CellOf(df, r, cols[k])), ql)
        primary == SelectSeq(df.rows, Primary)
    IN  IF Len(primary) > 0 THEN primary ELSE SelectSeq(df.rows, AnyCell)

\* The records built from the hits, before the duplicates are dropped
Records(df, hits, col_num, col_name, ql, wanted) ==
    IF col_num # "" \/ col_name # ""
    THEN [i \in 1..Len(hits) |->
            [site |-> hits[i].site,
             number |-> CamNumber(wanted, RowNumber(df, hits[i], col_num, col_name)),
             name |-> RowName(df, hits[i], col_num, col_name)]]
    ELSE TitleMatches(df, hits, 1, ql, wanted)

\* df[mask]: the mask is indexed 0..n-1 and the rows the site filter kept by
\* their places in the whole frame; indexing raises unless the kept rows are
\* its first rows.  `mask |= ...` leaves the mask's index as it was
\* (keeps_index) or widens it to the rows', as the pandas at hand does.
Unalignable(df0, site, no_columns, keeps_index) ==
    /\ no_columns \/ keeps_index
    /\ site # ""
    /\ \E i \in 1..Len(df0.rows) : \E j \in (i + 1)..Len(df0.rows) :
          df0.rows[i].site # site /\ df0.rows[j].site = site

\* search() after the site is parsed and the columns are inferred: on the
\* narrowed frame df, with the pattern ql and the digits of the query
Searched(df0, df, site, col_num, col_name, ql, wanted, limit, keeps_index) ==
    IF Len(df.rows) = 0 THEN [raised |-> FALSE, recs |-> <<>>]
    ELSE IF re_error(ql) \/ Unalignable(df0, site, col_num = "" /\ col_name = "", keeps_index)
    THEN [raised |-> TRUE, recs |-> <<>>]
    ELSE [raised |-> FALSE,
          recs |-> FirstN(Unseen(Records(df, Hits(df, col_num, col_name, ql),
                                         col_num, col_name, ql, wanted), 1, {}),
                          IF limit > 1 THEN limit ELSE 1)]

\* df[df["__site__"] == site] when the query names a site
Narrowed(df0, site) ==
    [columns |-> df0.columns,
     rows |-> IF site # "" THEN SelectSeq(df0.rows, LAMBDA r : r.site = site)
              ELSE df0.rows]

\* search() on the stripped query q
SearchFor(df0, q, site, cols, limit, keeps_index) ==
    IF Len(df0.rows) = 0 \/ q = "" THEN [raised |-> FALSE, recs |-> <<>>]
    ELSE Searched(df0, Narrowed(df0, site), site,
                  pick_column(cols, NUMBER_CANDIDATES), pick_column(cols, NAME_CANDIDATES),
                  lower(q), digits_from_query(q), limit, keeps_index)

\* cameras.search(query, limit) on the loaded frame df0: the records
\* (site, _number, _name), or the error of re.compile or of the indexing
search(df0, q0, limit, keeps_index) ==
    SearchFor(df0, strip(q0), parse_site_from_query(strip(q0)),
              df0.columns \o <<"__site__">>, limit, keeps_index)

-----------------------------------------------------------------------------
(* The caches of the two sheet loaders, and agents/doors_agent.py and       *)
(* agents/camera_agent.py.  A loader's table is named by the moment it was  *)
(* read; what it holds is what the workbook holds.                          *)

\* A ttl_cache as decorator() leaves it
Fresh == [cached |-> <<>>, last_filled_at |-> 0]

\* wrapped() on the instance c at time t: the instance after the call, whether
\* the loader was invoked and raised, and the table returned.  `ok`: the
\* loader, if it is invoked, returns.
TtlCall(c, t, ok) ==
    LET expired == Expired(t, c.last_filled_at)
        c1      == IF expired THEN <<>> ELSE c.cached
        t1      == IF expired THEN t ELSE c.last_filled_at
        hit     == LruHas(c1, "()")
    IN  [cache |-> [cached |-> CallThrough(c1, "()", ok, Table(t), TtlMaxsize),
                    last_filled_at |-> t1],
         invoked |-> ~hit, raised |-> ~hit /\ ~ok,
         result |-> IF hit THEN LruGet(c1, "()") ELSE IF ok THEN Table(t) ELSE None]

\* wrapped.cache_clear() on the instance c
TtlClear(c) == [cached |-> <<>>, last_filled_at |-> 0]

\* The instance c holds a table that a call at time t would return.
Holds(c, t) == LruHas(c.cached, "()") /\ ~Expired(t, c.last_filled_at)

\* context.get("refresh", default): a context is <<>> without the key and
\* <<value>> with it
RefreshOf(ctx, default) == IF Len(ctx) = 0 THEN default ELSE ctx[1]

TRUTHY == {"1", "true", "yes"}

\* staff_directory_agent: str(context.get("refresh", "0")) == "1"
staff_refresh(ctx) == RefreshOf(ctx, "0") = "1"

\* camera_agent: str(context.get("refresh", "0")).lower() in {"1", "true", "yes"}
camera_refresh(ctx) == lower(RefreshOf(ctx, "0")) \in TRUTHY

\* doors_agent: str(context.get("refresh", "")).lower() in ("1", "true", "yes")
doors_refresh(ctx) == lower(RefreshOf(ctx, "")) \in TRUTHY

\* "\n".join(lines)
RECURSIVE JoinLines(_, _)
JoinLines(lines, i) ==
    IF i > Len(lines) THEN ""
    ELSE IF i = Len(lines) THEN lines[i]
    ELSE lines[i] \o "\n" \o JoinLines(lines, i + 1)

\* _wants_location(q)
wants_location(q) ==
    LET t == lower(q)
    IN  Contains(t, "where is") \/ Contains(t, "location") \/ StartsWith(t, "where ")

\* find_location(query, limit=10) and find_by_text(query, limit=10)
DoorLimit == 10

\* The answer to a location question: the first hit, its location or else
\* its description
LocationReply(rows) ==
    IF Len(rows) = 0
    THEN [kind |-> "no_match", rows |-> <<>>,
          text |-> "No matching doors (location) found."]
    ELSE [kind |-> "location", rows |-> <<rows[1]>>,
          text |-> "[" \o rows[1].tab \o "] " \o rows[1].door \o ": " \o
                   Or(Or(rows[1].location, rows[1].description),
                      "(no location available)")]

\* One line of the list of doors
DoorLine(r) ==
    "[" \o r.tab \o "] " \o r.door \o " - " \o r.description \o
    (IF r.location # "" THEN " - " \o r.location ELSE "")

\* The answer to any other question: the list of the hits
ListReply(rows) ==
    IF Len(rows) = 0
    THEN [kind |-> "no_match", rows |-> <<>>, text |-> "No matching doors found."]
    ELSE [kind |-> "rows", rows |-> rows,
          text |-> JoinLines([i \in 1..Len(rows) |-> DoorLine(rows[i])], 1)]

\* doors_agent(query) on the loaded frame df
doors_reply(df, q) ==
    IF wants_location(q)
    THEN LocationReply(find_location(df, q, DoorLimit))
    ELSE ListReply(find_by_text(df, q, DoorLimit))

\* doors_agent(query, context) at time t with the cache c of doors._load_all:
\* the cache after the call, the reply, and what the call was served.
\* `loaded` is what _load_all() does when it is invoked, `reply` the reply on
\* the loaded frame.
doors_agent(c, t, ctx, loaded, reply) ==
    LET c0   == IF doors_refresh(ctx) THEN TtlClear(c) ELSE c
        call == TtlCall(c0, t, ~loaded.raised)
    IN  [cache |-> call.cache,
         reply |-> IF call.raised THEN Raised ELSE reply,
         served |-> [at |-> t, table |-> call.result, invoked |-> call.invoked,
                     held |-> Holds(c, t)]]

\* cameras_search(query, limit=10)
CameraLimit == 10

\* The keys of a record of cameras.search
RECORD_KEYS == <<"__site__", "_number", "_name", "_row">>

\* rec.get(key) on a record of cameras.search; "" for a key that is not
\* there (None)
Get(rec, key) ==
    IF key = "_number" THEN rec.number
    ELSE IF key = "_name" THEN rec.name
    ELSE IF key = "__site__" THEN rec.site ELSE ""

\* One line of the list of cameras: the site, "#" and the number, the name; a
\* record without number and name is shown whole, written "{}"
CameraLine(site, num, name) ==
    LET site_part == IF site # "" THEN "[" \o site \o "] " ELSE ""
        num_part  == IF strip(num) # "" THEN "#" \o num ELSE ""
        sep       == IF num_part # "" /\ name # "" THEN " - " ELSE ""
        name_part == IF strip(name) # "" THEN name ELSE ""
    IN  IF num_part = "" /\ name_part = "" THEN site_part \o "{}"
        ELSE site_part \o num_part \o sep \o name_part

\* The answer of camera_agent to what search() returned
CameraReply(found, col_num, col_name) ==
    IF found.raised THEN Raised
    ELSE IF Len(found.recs) = 0
    THEN [kind |-> "no_match", rows |-> <<>>, text |-> "No matching cameras."]
    ELSE [kind |-> "rows", rows |-> found.recs,
          text |-> JoinLines([i \in 1..Len(found.recs) |->
                                 CameraLine(found.recs[i].site,
                                            Get(found.recs[i], col_num),
                                            Get(found.recs[i], col_name))], 1)]

\* camera_agent(query) on the loaded frame df: _infer_cols picks the number
\* and the name among the keys of the first record
camera_reply(df, q, keeps_index) ==
    CameraReply(search(df, q, CameraLimit, keeps_index),
                pick_column(RECORD_KEYS, NUMBER_CANDIDATES),
                pick_column(RECORD_KEYS, NAME_CANDIDATES))

\* camera_agent(query, context) at time t with the cache c of cameras.load_all
camera_agent(c, t, ctx, loaded, reply) ==
    LET c0   == IF camera_refresh(ctx) THEN TtlClear(c) ELSE c
        call == TtlCall(c0, t, ~loaded.raised)
    IN  [cache |-> call.cache,
         reply |-> IF call.raised THEN Raised ELSE reply,
         served |-> [at |-> t, table |-> call.result, invoked |-> call.invoked,
                     held |-> Holds(c, t)]]

-----------------------------------------------------------------------------
(* The staff agent on a loaded table.  A run answers one call (cli.py runs *)
(* the agent once on its --query).                                         *)

\* Rows of the staff table.
MaxRows == 6

MatchQueries ==
    { "tell me about john", "PSA for Smythe, John", "john smith please",
      "John Smythe or John Al Lee", "contact number" }

\* The header of the staff CSV: Name, then columns the vocabulary names, one
\* of them also spelt in lower case with a trailing blank.
HeaderPool ==
    << "PSA Licence", "PSA Licence exp. DD/MM/YYYY", "Employee PIN (0****)",
       "Date of first Aid expire", "psa licence " >>

FieldPhrases ==
    {COLUMN_ALIASES_SINGLE[i].k : i \in 1..Len(COLUMN_ALIASES_SINGLE)}
    \cup {"psa first aid expiry", "psa and employee pin", "shipping", "tell me about"}

\* Whom the field queries ask about: an employee of the table, and nobody.
FieldNames == {"John Smith", "Bob"}

SeqsUpTo(S, n) == UNION {[1..k -> S] : k \in 0..n}

\* The columns of HeaderPool at the positions in `keep`, in file order.
Header(keep) == SelectSeq(HeaderPool, LAMBDA c : \E i \in keep : HeaderPool[i] = c)

Headers ==
    {<<"Name">> \o Header(keep) : keep \in SUBSET (1..Len(HeaderPool))}
    \cup {HeaderPool}

InitClock ==
    /\ now = Epoch0
    /\ ticks = 0
    /\ last_filled_at = 0
    /\ cached = <<>>
    /\ load_df_cached = <<>>
    /\ prev = [c \in Caches |-> NoPrev]
    /\ last = NoCall
    /\ loaders = [cameras |-> Fresh, doors |-> Fresh]
    /\ InitIdle

\* Either a table whose Name column varies, asked the name queries, or a
\* table whose header varies, asked for a field.
InitStaff ==
    /\ InitClock
    /\ env = EnvOk
    /\ sheets = NoSheets
    /\ out = NoOut
    /\ \/ /\ \E names \in SeqsUpTo(NamePool, MaxRows) :
                table = [columns |-> <<"Name">> \o HeaderPool, names |-> names]
          /\ query \in MatchQueries
       \/ /\ \E columns \in Headers :
                table = [columns |-> columns,
                         names |-> FieldTableNames]
          /\ \E p \in FieldPhrases : \E n \in FieldNames :
                query = p \o " for " \o n

\* StaffDirectory() succeeds: the table has a Name column
HasDirectory == "Name" \in Range(table.columns)

\* directory.find_best_name_in_text(query)
FindBest ==
    /\ out.op = "none"
    /\ HasDirectory
    /\ LET found == find_best_name_in_text(StaffDirectory(table), query)
       IN  out' = [NoOut EXCEPT !.op = "find_best_name_in_text",
                                !.clean = found.name, !.phase = found.phase]
    /\ UNCHANGED <<cacheVars, concVars, table, query, srcVars>>

\* directory.infer_fields_from_text(query)
InferFields ==
    /\ out.op = "none"
    /\ HasDirectory
    /\ out' = [NoOut EXCEPT
                 !.op = "infer_fields_from_text",
                 !.fields = infer_fields_from_text(StaffDirectory(table), query)]
    /\ UNCHANGED <<cacheVars, concVars, table, query, srcVars>>

\* The staff CSV cache after staff_directory_agent's clear (refresh) and load.
StaffCache(refresh, ok) ==
    CallThrough(IF refresh THEN <<>> ELSE load_df_cached,
                Bucket(now), ok, Table(now), StaffMaxsize)

\* The load raises: the bucket is not cached and the CSV does not read.
StaffLoadRaises(refresh, ok) ==
    ~ok /\ ~LruHas(IF refresh THEN <<>> ELSE load_df_cached, Bucket(now))

\* What staff_directory_agent's load was served.
StaffServed(refresh, ok) ==
    LET c0 == IF refresh THEN <<>> ELSE load_df_cached
    IN  [at |-> now,
         table |-> IF StaffLoadRaises(refresh, ok) THEN None
                   ELSE LruGet(StaffCache(refresh, ok), Bucket(now)),
         invoked |-> ~LruHas(c0, Bucket(now)),
         held |-> LruHas(load_df_cached, Bucket(now))]

\* The contexts a call comes with: without `refresh`, and with a value.
Contexts == {<<>>, <<"0">>, <<"1">>, <<"true">>, <<"yes">>}

\* staff_directory_agent(query, context); the CSV reads when it exists
StaffAsk ==
    /\ out.op = "none"
    /\ LET ans == StaffAnswer(table, query)
           ok  == env.csv
       IN  \E ctx \in Contexts :
              LET refresh == staff_refresh(ctx)
              IN  /\ load_df_cached' = StaffCache(refresh, ok)
                  /\ out' = [NoOut EXCEPT
                               !.op = "staff_directory_agent",
                               !.refresh = ctx,
                               !.served = StaffServed(refresh, ok),
                               !.raised = StaffLoadRaises(refresh, ok),
                               !.ans = IF StaffLoadRaises(refresh, ok)
                                       THEN [NoAns EXCEPT !.kind = "raise"]
                                       ELSE ans]
    /\ UNCHANGED <<now, ticks, last_filled_at, cached, prev, last,
                   concVars, table, query, srcVars>>

NextStaff == FindBest \/ InferFields \/ StaffAsk

SpecStaff == InitStaff /\ [][NextStaff]_vars

-----------------------------------------------------------------------------
(* agents/operations_agent.py: operations_agent.  A run answers one call. *)

\* What the user may put in front of a query, and the queries: door codes,
\* camera numbers, names, keywords, and texts no heuristic recognises.
RouterPrefixes ==
    {"", "  ", "staff: ", "Door:", "cameras: ", "doors : ", "camera:", "DOORS: "}

RouterBodies ==
    { "032E", "032E John Smith", "x032E John Smith", "12345E John Smith",
      "Which camera is near door 052A?", "204", "204 John Smith", "ppk2 389",
      "psa John Smith", "John Smith", "info for John Smith", "john",
      "12345", "7", "hello", "", "gate", "yard", "yard (", "psa Bob" }

\* The door workbook and the camera workbook of the router's runs.
RouterDoors ==
    << [tab |-> "PPK1", ok |-> TRUE,
        rows |-> << [door |-> "032E", description |-> "Main Gate",
                     location |-> "North lobby"],
                    [door |-> "075A", description |-> "Plant Room", location |-> ""] >>],
       [tab |-> "PPK2", ok |-> TRUE,
        rows |-> << [door |-> "052A", description |-> "UNSECURE_CORRIDOR_NO6",
                     location |-> "Level 2"] >>],
       [tab |-> "Expansion", ok |-> TRUE, rows |-> <<>>] >>

RouterCams ==
    [PPK1 |-> [site |-> "PPK1", ok |-> TRUE,
               columns |-> <<"Camera Number", "Camera Name">>,
               rows |-> << <<"204", "Yard East (204)">>, <<"7", "Lobby">> >>],
     PPK2 |-> [site |-> "PPK2", ok |-> TRUE,
               columns |-> <<"Camera Number", "Camera Name">>,
               rows |-> << <<"389", "Yard West">> >>]]

InitRouter ==
    /\ InitClock
    /\ env = EnvOk
    /\ sheets = [doors |-> RouterDoors, cams |-> RouterCams]
    /\ out = NoOut
    /\ table = [columns |-> <<"Name">> \o HeaderPool, names |-> FieldTableNames]
    /\ \E p \in RouterPrefixes : \E b \in RouterBodies : query = p \o b

\* resp_doors and "No matching doors" not in resp_doors
DoorsFound(reply) == reply.text # "" /\ ~Contains(reply.text, "No matching doors")

CamsFound_nonempty(reply) == reply.text # ""

\* resp_cams and resp_cams.strip() not in ("[]", "No matching cameras.", "[] # -")
CamsFound(reply) ==
    reply.text # "" /\ strip(reply.text) \notin {"[]", "No matching cameras.", "[] # -"}

Dispatch_heuristic_falls_through(q, prefix, heuristic, door, cam, staff) ==
    LET Raises(a) == \/ a = "door" /\ door.kind = "raise"
                     \/ a = "camera" /\ cam.kind = "raise"
                     \/ a = "staff" /\ staff.kind = "raise"
        Nothing(a) == \/ a = "door" /\ door.kind = "no_match"
                      \/ a = "camera" /\ cam.kind = "no_match"
                      \/ a = "staff" /\ staff.kind = "not_found"
    IN  IF prefix # "none"
        THEN [agent |-> prefix, via |-> "prefix", passed |-> AfterColon(q),
              ran |-> <<prefix>>, raised |-> Raises(prefix)]
        ELSE IF heuristic # "none" /\ ~Nothing(heuristic)
        THEN [agent |-> heuristic, via |-> "heuristic", passed |-> q,
              ran |-> <<heuristic>>, raised |-> Raises(heuristic)]
        ELSE IF door.kind = "raise" \/ DoorsFound(door)
        THEN [agent |-> "door", via |-> "fallback", passed |-> q,
              ran |-> <<"door">>, raised |-> Raises("door")]
        ELSE IF cam.kind = "raise" \/ CamsFound(cam)
        THEN [agent |-> "camera", via |-> "fallback", passed |-> q,
              ran |-> <<"door", "camera">>, raised |-> Raises("camera")]
        ELSE [agent |-> IF staff.kind # "not_found" THEN "staff" ELSE "none",
              via |-> "fallback", passed |-> q,
              ran |-> <<"door", "camera", "staff">>, raised |-> Raises("staff")]

\* The agents operations_agent runs, in order, the one whose reply it returns
\* ("none": its own could-not-determine message), and whether the call
\* raised.  `prefix` and `heuristic` are the agents the prefix and the
\* heuristics name; door, cam and staff are what the three agents do on the
\* text passed to them.
Dispatch(q, prefix, heuristic, door, cam, staff) ==
    LET Raises(a) == \/ a = "door" /\ door.kind = "raise"
                     \/ a = "camera" /\ cam.kind = "raise"
                     \/ a = "staff" /\ staff.kind = "raise"
    IN  IF prefix # "none"
        THEN [agent |-> prefix, via |-> "prefix", passed |-> AfterColon(q),
              ran |-> <<prefix>>, raised |-> Raises(prefix)]
        ELSE IF heuristic # "none"
        THEN [agent |-> heuristic, via |-> "heuristic", passed |-> q,
              ran |-> <<heuristic>>, raised |-> Raises(heuristic)]
        ELSE IF door.kind = "raise" \/ DoorsFound(door)
        THEN [agent |-> "door", via |-> "fallback", passed |-> q,
              ran |-> <<"door">>, raised |-> Raises("door")]
        ELSE IF cam.kind = "raise" \/ CamsFound(cam)
        THEN [agent |-> "camera", via |-> "fallback", passed |-> q,
              ran |-> <<"door", "camera">>, raised |-> Raises("camera")]
        ELSE [agent |-> IF staff.kind # "not_found" THEN "staff" ELSE "none",
              via |-> "fallback", passed |-> q,
              ran |-> <<"door", "camera", "staff">>, raised |-> Raises("staff")]

\* What operations_agent leaves: the caches of the agents that ran, and the
\* reply with the replies of those agents.  d is what Dispatch decided.
Routed(ctx, staff, door, cam, d) ==
    /\ load_df_cached' = IF "staff" \in Range(d.ran)
                         THEN StaffCache(staff_refresh(ctx), env.csv)
                         ELSE load_df_cached
    /\ loaders' = [doors |-> IF "door" \in Range(d.ran) THEN door.cache
                             ELSE loaders.doors,
                   cameras |-> IF "camera" \in Range(d.ran) THEN cam.cache
                               ELSE loaders.cameras]
    /\ out' = [NoOut EXCEPT
                 !.op = "operations_agent",
                 !.agent = d.agent, !.via = d.via,
                 !.passed = d.passed, !.ran = d.ran,
                 !.raised = d.raised, !.refresh = ctx,
                 !.door = IF "door" \in Range(d.ran) THEN door.reply ELSE NoReply,
                 !.cam = IF "camera" \in Range(d.ran) THEN cam.reply ELSE NoReply,
                 !.ans = IF "staff" \in Range(d.ran) THEN staff ELSE NoAns]

\* The three agents on the text passed to them, then the dispatch
Agents(q, prefix, heuristic, ctx, staff, door, cam) ==
    Routed(ctx, staff, door, cam,
           Dispatch(q, prefix, heuristic, door.reply, cam.reply, staff))

\* operations_agent on the stripped query q, with what the agents answer on
\* the text passed to them: the staff agent's answer, the doors agent's reply
\* and the camera agent's reply for either outcome of the indexing
RouteOn(q, prefix, heuristic, ans, doorsL, camsL, doorR, camKeeps, camDrops) ==
    \E ctx \in Contexts, keeps_index \in BOOLEAN :
        Agents(q, prefix, heuristic, ctx,
               IF StaffLoadRaises(staff_refresh(ctx), env.csv)
               THEN [NoAns EXCEPT !.kind = "raise"] ELSE ans,
               doors_agent(loaders.doors, now, ctx, doorsL, doorR),
               camera_agent(loaders.cameras, now, ctx, camsL,
                            IF keeps_index THEN camKeeps ELSE camDrops))

\* The text an agent is passed: what follows the prefix, else the query
Passed(q, prefix) == IF prefix # "none" THEN AfterColon(q) ELSE q

\* operations_agent on the stripped query q and the text passed on
RouteText(q, passed, doorsL, camsL) ==
    RouteOn(q, PrefixAgent(q), HeuristicAgent(q), StaffAnswer(table, passed),
            doorsL, camsL, doors_reply(doorsL.rows, passed),
            camera_reply(camsL.df, passed, TRUE),
            camera_reply(camsL.df, passed, FALSE))

\* operations_agent(query, context)
Route ==
    /\ out.op = "none"
    /\ RouteText(strip(query), Passed(strip(query), PrefixAgent(strip(query))),
                 doors_load_all(env, sheets), load_all(env, sheets))
    /\ UNCHANGED <<now, ticks, last_filled_at, cached, prev, last,
                   concVars, table, query, env, sheets>>

NextRouter == Route

SpecRouter == InitRouter /\ [][NextRouter]_vars

-----------------------------------------------------------------------------
(* The door and the camera lookups on loaded workbooks.  A run makes one   *)
(* lookup.                                                                  *)

LookupDoors ==
    << [tab |-> "PPK1", ok |-> TRUE,
        rows |-> << [door |-> "032E", description |-> "UNSECURE_CORRIDOR_NO6",
                     location |-> ""],
                    [door |-> "052A", description |-> "Main Gate",
                     location |-> "North lobby B2"],
                    [door |-> "075A", description |-> "Main Gate South",
                     location |-> "Yard"],
                    [door |-> "101B", description |-> "Plant",
                     location |-> " unsecure corridor no6 "] >>],
       [tab |-> "PPK2", ok |-> TRUE,
        rows |-> << [door |-> "110C", description |-> "Corridor",
                     location |-> "No6 Unsecure"] >>],
       [tab |-> "Expansion", ok |-> TRUE, rows |-> <<>>] >>

\* Camera sheets with a number and a name column
LookupCams ==
    [PPK1 |-> [site |-> "PPK1", ok |-> TRUE,
               columns |-> <<"Camera Number", " Camera Name">>,
               rows |-> << <<"204", "Yard East (389)">>,
                           <<"17", "PPK 1 204 Stores">>,
                           <<"7", "Lobby cam12">> >>],
     PPK2 |-> [site |-> "PPK2", ok |-> TRUE,
               columns |-> <<"Camera Number", " Camera Name">>,
               rows |-> << <<"389", "PPK2 389 Yard West">> >>]]

\* Camera sheets whose headers are camera titles
LookupTitles ==
    [PPK1 |-> [site |-> "PPK1", ok |-> TRUE,
               columns |-> <<"Gate (389)", "Yard 204">>,
               rows |-> << <<"Dock 204", "Lobby">>, <<"", "Dock 5">> >>],
     PPK2 |-> [site |-> "PPK2", ok |-> TRUE,
               columns |-> <<"Gate (389)", "Yard 204">>,
               rows |-> <<>>]]

LookupBooks ==
    { [doors |-> LookupDoors, cams |-> LookupCams],
      [doors |-> RouterDoors, cams |-> LookupTitles] }

LookupQueries ==
    { "where is unsecure_corridor_no6", "where is main gate north b2",
      "where is main gate", "where is gate 9", "where is the door",
      "where is corridor yard", "location", "Where is  UNSECURE_CORRIDOR",
      "gate", "main-gate", "", "204", "ppk 1 204", "ppk2 389", "389",
      "lobby", "cam12", "yard (", "dock", "PPK1 yard" }

InitLookup ==
    /\ InitClock
    /\ env = EnvOk
    /\ sheets \in LookupBooks
    /\ out = NoOut
    /\ table = [columns |-> <<>>, names |-> <<>>]
    /\ query \in LookupQueries

\* What a lookup returned: its records, none, or it raised
Found(raised, recs) ==
    IF raised THEN Raised
    ELSE [kind |-> IF Len(recs) = 0 THEN "no_match" ELSE "rows", rows |-> recs,
          text |-> ""]

\* doors.find_location(query)
FindLocation ==
    /\ out.op = "none"
    /\ LET loaded == doors_load_all(env, sheets)
           call   == TtlCall(loaders.doors, now, ~loaded.raised)
           again  == IF call.raised \/ Len(extract_tokens(lower(strip(query)))) > 0
                     THEN call ELSE TtlCall(call.cache, now, ~loaded.raised)
       IN  /\ loaders' = [loaders EXCEPT !.doors = again.cache]
           /\ out' = [NoOut EXCEPT
                        !.op = "find_location", !.raised = again.raised,
                        !.door = Found(again.raised,
                                       find_location(loaded.rows, query, DoorLimit))]
    /\ UNCHANGED <<now, ticks, last_filled_at, cached, load_df_cached, prev, last,
                   concVars, table, query, env, sheets>>

\* doors.find_by_text(query)
FindByText ==
    /\ out.op = "none"
    /\ LET loaded == doors_load_all(env, sheets)
           call   == TtlCall(loaders.doors, now, ~loaded.raised)
       IN  /\ loaders' = [loaders EXCEPT !.doors = call.cache]
           /\ out' = [NoOut EXCEPT
                        !.op = "find_by_text", !.raised = call.raised,
                        !.door = Found(call.raised,
                                       find_by_text(loaded.rows, query, DoorLimit))]
    /\ UNCHANGED <<now, ticks, last_filled_at, cached, load_df_cached, prev, last,
                   concVars, table, query, env, sheets>>

\* cameras.search(query)
Search ==
    /\ out.op = "none"
    /\ LET loaded == load_all(env, sheets)
           call   == TtlCall(loaders.cameras, now, ~loaded.raised)
       IN  \E keeps_index \in BOOLEAN :
              LET found == search(loaded.df, query, CameraLimit, keeps_index)
              IN  /\ loaders' = [loaders EXCEPT !.cameras = call.cache]
                  /\ out' = [NoOut EXCEPT
                               !.op = "search",
                               !.raised = call.raised \/ found.raised,
                               !.cam = Found(call.raised \/ found.raised, found.recs)]
    /\ UNCHANGED <<now, ticks, last_filled_at, cached, load_df_cached, prev, last,
                   concVars, table, query, env, sheets>>

NextLookup == FindLocation \/ FindByText \/ Search

SpecLookup == InitLookup /\ [][NextLookup]_vars

-----------------------------------------------------------------------------
(* Concurrent callers: the steps *)

Max(a, b) == IF a >= b THEN a ELSE b

\* History: a clearing of the cache is noted in every table whose loader
\* invocation is running.
Crossed(t) ==
    [k \in Threads |-> IF t[k].pc = "loading"
                       THEN [t[k] EXCEPT !.tab.x = TRUE] ELSE t[k]]

\* wrapped(): `now = time.time()`
LoadBegin(i) ==
    /\ th[i].pc = "idle"
    /\ calls < MaxCalls
    /\ calls' = calls + 1
    /\ th' = [th EXCEPT ![i] = [Idle EXCEPT !.pc = "check", !.t = now,
                                             !.mark = inv_mark.begun,
                                             !.cmark = inv_mark.cleared]]
    /\ UNCHANGED <<now, ticks, last_filled_at, cached, ev, inv_mark, seqVars>>

\* wrapped(): `if now - last_filled_at["t"] > ttl_seconds:`
LoadCheck(i) ==
    /\ th[i].pc = "check"
    /\ th' = [th EXCEPT ![i].pc =
                 IF Expired(th[i].t, last_filled_at) THEN "clear" ELSE "call"]
    /\ UNCHANGED <<now, ticks, last_filled_at, cached, ev, calls, inv_mark, seqVars>>

LoadClear_skips_clear(i) ==
    /\ th[i].pc = "clear"
    /\ cached' = cached
    /\ th' = [th EXCEPT ![i].pc = "stamp"]
    /\ UNCHANGED <<now, ticks, last_filled_at, ev, calls, inv_mark, seqVars>>

\* wrapped(): `cached.cache_clear()`
LoadClear(i) ==
    /\ th[i].pc = "clear"
    /\ cached' = <<>>
    /\ th' = Crossed([th EXCEPT ![i].pc = "stamp"])
    /\ UNCHANGED <<now, ticks, last_filled_at, ev, calls, inv_mark, seqVars>>

\* wrapped(): `last_filled_at["t"] = now`
LoadStamp(i) ==
    /\ th[i].pc = "stamp"
    /\ last_filled_at' = th[i].t
    /\ th' = [th EXCEPT ![i].pc = "call"]
    /\ UNCHANGED <<now, ticks, cached, ev, calls, inv_mark, seqVars>>

\* wrapped(): `cached(*args, **kwargs)`, the lru_cache's lookup: a hit is the
\* value to return, a miss begins a loader invocation.
LoadCall(i) ==
    /\ th[i].pc = "call"
    /\ IF LruHas(cached, "()")
       THEN /\ th' = [th EXCEPT ![i] = [@ EXCEPT !.pc = "return",
                                                 !.tab = LruGet(cached, "()")]]
            /\ ev' = ev
       ELSE /\ th' = [th EXCEPT ![i] = [@ EXCEPT !.pc = "loading",
                          !.invoked = TRUE,
                          !.tab = [at |-> now, ls |-> ev + 1, lf |-> None,
                                   x |-> FALSE]]]
            /\ ev' = ev + 1
    /\ UNCHANGED <<now, ticks, last_filled_at, cached, calls, inv_mark, seqVars>>

\* The loader invocation ends: it raises, or it returns its table, which the
\* lru_cache stores unless another caller stored one in the meantime.
LoadDone(i) ==
    /\ th[i].pc = "loading"
    /\ \E ok \in BOOLEAN :
          LET tab == [th[i].tab EXCEPT !.lf = ev + 1]
          IN  /\ cached' = CallThrough(cached, "()", ok, tab, TtlMaxsize)
              /\ th' = [th EXCEPT ![i] = [@ EXCEPT !.pc = "return",
                                 !.tab = IF ok THEN tab ELSE NoTable,
                                 !.raised = ~ok]]
    /\ ev' = ev + 1
    /\ UNCHANGED <<now, ticks, last_filled_at, calls, inv_mark, seqVars>>

\* wrapped() returns th[i].tab (or the loader's error propagates).
LoadReturn(i) ==
    /\ th[i].pc = "return"
    /\ th' = [th EXCEPT ![i] = Idle]
    /\ UNCHANGED <<now, ticks, last_filled_at, cached, ev, calls, inv_mark, seqVars>>

\* cache_clear(): `cached.cache_clear()`
ClearBegin(i) ==
    /\ th[i].pc = "idle"
    /\ calls < MaxCalls
    /\ calls' = calls + 1
    /\ cached' = <<>>
    /\ ev' = ev + 1
    /\ th' = Crossed([th EXCEPT ![i] = [Idle EXCEPT !.pc = "reset",
                                             !.mark = ev, !.cmark = ev + 1]])
    /\ UNCHANGED <<now, ticks, last_filled_at, inv_mark, seqVars>>

\* cache_clear(): `last_filled_at["t"] = 0.0`, and the call returns.
ClearReset(i) ==
    /\ th[i].pc = "reset"
    /\ last_filled_at' = 0
    /\ inv_mark' = [begun |-> Max(inv_mark.begun, th[i].mark),
                    cleared |-> Max(inv_mark.cleared, th[i].cmark)]
    /\ th' = [th EXCEPT ![i] = Idle]
    /\ UNCHANGED <<now, ticks, cached, ev, calls, seqVars>>

ConcTick ==
    /\ ticks < ConcTicks
    /\ \E d \in ConcDeltas : now' = now + d
    /\ ticks' = ticks + 1
    /\ UNCHANGED <<last_filled_at, cached, concVars, seqVars>>

InitConc ==
    /\ now = Epoch0
    /\ ticks = 0
    /\ last_filled_at = 0
    /\ cached = <<>>
    /\ load_df_cached = <<>>
    /\ prev = [c \in Caches |-> NoPrev]
    /\ last = NoCall
    /\ InitIdle
    /\ InitNoText
    /\ InitNoSources

NextConc ==
    \/ \E i \in Threads :
          \/ LoadBegin(i) \/ LoadCheck(i) \/ LoadClear(i) \/ LoadStamp(i)
          \/ LoadCall(i) \/ LoadDone(i) \/ LoadReturn(i)
          \/ ClearBegin(i) \/ ClearReset(i)
    \/ ConcTick

SpecConc == InitConc /\ [][NextConc]_vars

-----------------------------------------------------------------------------
(* The agents on their sources: the configuration, workbooks whose tabs    *)
(* read or fail, the three table caches, and the clock.  A run warms      *)
(* caches, lets time pass, and asks one agent.                             *)

\* The configuration complete, or with one value missing.
Envs ==
    {EnvOk} \cup {[EnvOk EXCEPT ![k] = FALSE] :
                     k \in {"cred", "DOORS_SHEET_ID", "CAM_PPK1_SHEET_ID",
                            "CAM_PPK2_SHEET_ID", "csv"}}

\* The router's workbooks with the reads of the door tabs at the places in
\* `doors` and of the camera tabs in `cams` failing.
Failing(doors, cams) ==
    [doors |-> [i \in 1..Len(RouterDoors) |->
                   [RouterDoors[i] EXCEPT !.ok = i \notin doors]],
     cams |-> [s \in {"PPK1", "PPK2"} |-> [RouterCams[s] EXCEPT !.ok = s \notin cams]]]

SourceBooks ==
    { Failing({}, {}), Failing({1}, {}), Failing({2}, {}), Failing({1, 2, 3}, {}),
      Failing({}, {"PPK2"}), Failing({}, {"PPK1"}), Failing({}, {"PPK1", "PPK2"}) }

\* A text found in door rows of two tabs, and one found in camera rows of both
SourceQueries == {"or", "yard"}

InitSources ==
    /\ InitClock
    /\ \/ env \in Envs /\ sheets = Failing({}, {})
       \/ env = EnvOk /\ sheets \in SourceBooks
    /\ out = NoOut
    /\ table = [columns |-> <<"Name">> \o HeaderPool, names |-> FieldTableNames]
    /\ query \in SourceQueries

\* An earlier use of the staff table, before the clock advances:
\* _load_df_ttl(filepath, CSV_TTL_SECONDS)
LoadStaff ==
    /\ out.op = "none" /\ ticks = 0
    /\ load_df_cached' = StaffCache(FALSE, env.csv)
    /\ UNCHANGED <<now, ticks, last_filled_at, cached, prev, last,
                   concVars, textVars, srcVars>>

\* An earlier use of the camera table: cameras.load_all()
LoadCameras ==
    /\ out.op = "none" /\ ticks = 0
    /\ loaders' = [loaders EXCEPT
                     !.cameras = TtlCall(loaders.cameras, now,
                                         ~load_all(env, sheets).raised).cache]
    /\ UNCHANGED <<now, ticks, last_filled_at, cached, load_df_cached, prev, last,
                   concVars, textVars, env, sheets>>

\* An earlier use of the door table: doors._load_all()
LoadDoors ==
    /\ out.op = "none" /\ ticks = 0
    /\ loaders' = [loaders EXCEPT
                     !.doors = TtlCall(loaders.doors, now,
                                       ~doors_load_all(env, sheets).raised).cache]
    /\ UNCHANGED <<now, ticks, last_filled_at, cached, load_df_cached, prev, last,
                   concVars, textVars, env, sheets>>

\* camera_agent(query, context)
CameraAsk ==
    /\ out.op = "none"
    /\ LET loaded == load_all(env, sheets)
           keeps  == camera_reply(loaded.df, query, TRUE)
           drops  == camera_reply(loaded.df, query, FALSE)
       IN  \E ctx \in Contexts, keeps_index \in BOOLEAN :
              LET a == camera_agent(loaders.cameras, now, ctx, loaded,
                                    IF keeps_index THEN keeps ELSE drops)
              IN  /\ loaders' = [loaders EXCEPT !.cameras = a.cache]
                  /\ out' = [NoOut EXCEPT
                               !.op = "camera_agent", !.refresh = ctx,
                               !.raised = a.reply.kind = "raise",
                               !.cam = a.reply, !.served = a.served]
    /\ UNCHANGED <<now, ticks, last_filled_at, cached, load_df_cached, prev, last,
                   concVars, table, query, env, sheets>>

\* doors_agent(query, context)
DoorsAsk ==
    /\ out.op = "none"
    /\ LET loaded == doors_load_all(env, sheets)
           reply  == doors_reply(loaded.rows, query)
       IN  \E ctx \in Contexts :
              LET a == doors_agent(loaders.doors, now, ctx, loaded, reply)
              IN  /\ loaders' = [loaders EXCEPT !.doors = a.cache]
                  /\ out' = [NoOut EXCEPT
                               !.op = "doors_agent", !.refresh = ctx,
                               !.raised = a.reply.kind = "raise",
                               !.door = a.reply, !.served = a.served]
    /\ UNCHANGED <<now, ticks, last_filled_at, cached, load_df_cached, prev, last,
                   concVars, table, query, env, sheets>>

NextSources ==
    \/ ConcTick
    \/ LoadStaff \/ LoadCameras \/ LoadDoors
    \/ StaffAsk \/ CameraAsk \/ DoorsAsk

SpecSources == InitSources /\ [][NextSources]_vars

-----------------------------------------------------------------------------
(* Claims about concurrent callers, checked under SpecConc *)

\* Thread i's load is about to return a table.
Returning(i) == th[i].pc = "return" /\ ~th[i].raised

\* The table was produced by a loader invocation that began before an
\* invalidate that had returned when thread i's load began.
PredatesInvalidate(i) == th[i].mark # None /\ th[i].tab.ls <= th[i].mark

\* The table's loader invocation began more than the TTL before thread i's
\* load read the clock.
OlderThanTTL(i) == th[i].t - th[i].tab.at > ttl_seconds

\* C4 as stated: under every interleaving, a load that starts after an
\* invalidate has returned never returns a table whose loader invocation started
\* before that invalidate, and no load returns a table older than the TTL.
C4_AsStated ==
    \A i \in Threads :
        Returning(i) => (~PredatesInvalidate(i) /\ ~OlderThanTTL(i))

\* C4 amended: both guarantees hold for every table whose loader invocation
\* did not run across a clearing of the cache (by an invalidate or by a load that
\* found the TTL expired); a table whose invocation did is stored after the
\* clearing and can be returned.  In every case the table returned is the whole
\* result of one finished loader invocation, and none that had finished before a
\* returned invalidate cleared the cache.
C4_UncrossedTablesFresh ==
    \A i \in Threads :
        Returning(i) =>
            /\ th[i].tab.lf # None
            /\ th[i].tab.ls < th[i].tab.lf
            /\ ~(th[i].cmark # None /\ th[i].tab.lf < th[i].cmark)
            /\ ~th[i].tab.x => (~PredatesInvalidate(i) /\ ~OlderThanTTL(i))

\* A load that began after an invalidate had returned is served, from the cache,
\* a table another thread loaded after that invalidate.
C4_Witness ==
    \E i \in Threads :
        /\ Returning(i)
        /\ th[i].mark # None
        /\ ~th[i].invoked
        /\ ~th[i].tab.x
        /\ th[i].tab.ls > th[i].mark

-----------------------------------------------------------------------------
(* Claims about the caches, checked under SpecCache *)

LastLoad(c) == last.op = "load" /\ last.cache = c

\* The table the cache held when the last call began: for ttl_cache the one
\* entry, for the staff cache the entry of the most recent bucket.
PreTable == Newest(last.pre_cache)

CacheOf(c) == IF c = "ttl" THEN cached ELSE load_df_cached

\* C1 as stated: for both caches, a load less than T seconds after the load
\* that filled the cache returns the cached table without invoking the loader,
\* and a load T or more seconds after it invokes the loader again.
C1_AsStated ==
    (last.op = "load" /\ PreTable # None) =>
        /\ (last.at - PreTable < ttl_seconds) =>
               (~last.invoked /\ last.result = PreTable)
        /\ (last.at - PreTable >= ttl_seconds) => last.invoked

\* C1 amended: ttl_cache counts the TTL from the load that opened the window
\* (the load that found the cache expired or invalidated, which filled the cache
\* unless its loader raised) and reloads only when strictly more than T seconds
\* have passed since; the staff cache reloads exactly when the wall-clock bucket
\* floor(now / T) differs from the bucket of the load that filled the cache, so a
\* load T or more seconds later always reloads and an earlier one may.
C1_TTLWindows ==
    /\ (LastLoad("ttl") /\ PreTable # None) =>
          /\ last.pre_t <= PreTable
          /\ (last.at - last.pre_t <= ttl_seconds) =>
                 (~last.invoked /\ last.result = PreTable)
          /\ (last.at - last.pre_t > ttl_seconds) => last.invoked
    /\ (LastLoad("staff") /\ PreTable # None) =>
          /\ (last.at \div CSV_TTL_SECONDS = PreTable \div CSV_TTL_SECONDS) =>
                 (~last.invoked /\ last.result = PreTable)
          /\ (last.at \div CSV_TTL_SECONDS # PreTable \div CSV_TTL_SECONDS) =>
                 last.invoked
          /\ (last.at - PreTable >= CSV_TTL_SECONDS) => last.invoked

\* A load exactly T seconds after the load that filled ttl_cache is served from
\* the cache.
C1_Witness ==
    /\ LastLoad("ttl")
    /\ PreTable # None
    /\ last.pre_t = PreTable
    /\ last.at - PreTable = ttl_seconds
    /\ ~last.invoked
    /\ last.result = PreTable

\* C2: the first load after an invalidate (cache_clear, clear_cache) invokes the
\* loader, however little time has passed.
C2_InvalidateForcesReload ==
    (last.op = "load" /\ last.prev.op = "clear") => last.invoked

\* A table loaded at this very instant was invalidated, and the load that
\* follows invokes the loader and returns a new table.
C2_Witness ==
    /\ last.op = "load"
    /\ last.prev.op = "clear"
    /\ last.prev.dropped = last.at
    /\ last.invoked
    /\ last.result = Table(last.at)

\* C3 as stated: when the loader raises, the cache is as it was before the call
\* (a table cached before is still the cached entry).
C3_AsStated ==
    (last.op = "load" /\ last.raised) => CacheOf(last.cache) = last.pre_cache

\* C3 amended: when the loader raises, the call returns no table and stores
\* none, and the next load invokes the loader again.  ttl_cache has by then
\* discarded an expired entry and restarted the TTL window, so it is empty
\* afterwards; the staff cache keeps the entries of earlier buckets and has none
\* for the current bucket.
C3_FailureStoresNothing ==
    /\ (last.op = "load" /\ last.raised) =>
          /\ last.invoked
          /\ last.result = None
    /\ (LastLoad("ttl") /\ last.raised) =>
          /\ cached = <<>>
          /\ last_filled_at =
                 IF last.at - last.pre_t > ttl_seconds THEN last.at ELSE last.pre_t
    /\ (LastLoad("staff") /\ last.raised) =>
          /\ load_df_cached = last.pre_cache
          /\ \A i \in 1..Len(load_df_cached) :
                 load_df_cached[i].key # last.at \div CSV_TTL_SECONDS
    /\ (last.op = "load" /\ last.prev.op = "load" /\ last.prev.raised) =>
          last.invoked

\* The loader raised on an expired ttl_cache entry: the entry is gone.
C3_Witness ==
    /\ LastLoad("ttl")
    /\ last.raised
    /\ PreTable # None
    /\ cached = <<>>

-----------------------------------------------------------------------------
(* Claims about the staff agent's name matcher, checked under SpecStaff *)

Rows == 1..Len(table.names)

\* The clean name of row i.
CleanAt(i) == CleanOf[table.names[i]]

\* The rows whose non-empty clean name occurs in the lower-cased query t.
Occurring(t) == {i \in Rows : CleanAt(i) # "" /\ Contains(t, CleanAt(i))}

\* How many words of display name n are among the query's words qt, and how
\* many words n has.
RankOf(n, qt) ==
    LET tok == TokensOf[CleanOf[n]]
    IN  [matched |-> Cardinality({k \in 1..Len(tok) : tok[k] \in qt}),
         total   |-> Len(tok)]

\* The rows that share a word with the query, and those of them with the
\* greatest number of shared words.
CandidateRows(qt) == {i \in Rows : RankOf(table.names[i], qt).matched > 0}

TopRows(qt) ==
    LET cand == CandidateRows(qt)
    IN  {i \in cand : \A j \in cand :
            RankOf(table.names[j], qt).matched <= RankOf(table.names[i], qt).matched}

RanksAbove(a, b) ==
    a.matched > b.matched \/ (a.matched = b.matched /\ a.total > b.total)

Count(seq, x) == Cardinality({j \in 1..Len(seq) : seq[j] = x})

\* cands lists candidate rows by display name, best (matched, total) first,
\* five at most, and leaves out no row that ranks above a listed one.
RankedAndCapped(cands, qt) ==
    LET cand == CandidateRows(qt)
        rowsNamed(n) == Cardinality({i \in cand : table.names[i] = n})
    IN  /\ Len(cands) = (IF Cardinality(cand) < 5 THEN Cardinality(cand) ELSE 5)
        /\ \A j \in 1..Len(cands) : Count(cands, cands[j]) <= rowsNamed(cands[j])
        /\ \A j \in 1..Len(cands) : \A k \in (j + 1)..Len(cands) :
              ~RanksAbove(RankOf(cands[k], qt), RankOf(cands[j], qt))
        /\ \A i \in cand :
              Count(cands, table.names[i]) < rowsNamed(table.names[i])
              => ~RanksAbove(RankOf(table.names[i], qt), RankOf(cands[Len(cands)], qt))

Answered == out.op = "staff_directory_agent" /\ out.ans.kind # "raise"

\* The agent answered about one employee.
OneEmployee == out.ans.kind \in {"values", "prompt", "no_entry"}

\* C5: when no clean name is a substring of the query, the staff agent
\* answers about a single employee only if exactly one row shares a word with
\* the query or one row shares strictly more words than every other; when
\* several rows tie for the most shared words it answers with the candidate
\* list, ranked by (matched, total) descending and capped at 5, and with no
\* record; when no row shares a word it answers that no name was found.
C5_NoGuessAmongTie ==
    Answered =>
        LET t    == lower(query)
            qt   == Range(name_tokens(t))
            cand == CandidateRows(qt)
            clear == Cardinality(cand) = 1 \/ Cardinality(TopRows(qt)) = 1
        IN  Occurring(t) = {} =>
              /\ OneEmployee => clear
              /\ (cand # {} /\ ~clear) =>
                    /\ out.ans.kind = "candidates"
                    /\ out.ans.name = "" /\ out.ans.fields = <<>>
                    /\ RankedAndCapped(out.ans.cands, qt)
              /\ cand = {} => out.ans.kind = "not_found"

\* Six rows tie on the one shared word: five are listed, the three-word name
\* first, and both 'john smith' and 'john smythe' are among them.
C5_Witness ==
    /\ Answered
    /\ query = "tell me about john"
    /\ table.names = <<"John Smith", "John  Smythe (Nights)", "John Smith",
                       "John  Smythe (Nights)", "John Smith", "John Al Lee">>
    /\ out.ans.kind = "candidates"
    /\ out.ans.cands = <<"John Al Lee", "John Smith", "John  Smythe (Nights)",
                         "John Smith", "John  Smythe (Nights)">>

\* C6: whenever a non-empty clean name occurs in the lower-cased query,
\* find_best_name_in_text returns in its first phase, and returns the longest
\* of the clean names that occur, the first in table order of that length.
C6_LongestSubstringFirst ==
    out.op = "find_best_name_in_text" =>
        LET occ == Occurring(lower(query))
        IN  occ # {} =>
              /\ out.phase = "A"
              /\ \E i \in occ :
                    /\ \A j \in occ : Len(CleanAt(j)) <= Len(CleanAt(i))
                    /\ \A j \in occ : Len(CleanAt(j)) = Len(CleanAt(i)) => i <= j
                    /\ \A j \in occ : j < i => Len(CleanAt(j)) < Len(CleanAt(i))
                    /\ out.clean = CleanAt(i)

\* Two clean names of eleven characters occur; the earlier row's is returned.
C6_Witness ==
    /\ out.op = "find_best_name_in_text"
    /\ query = "John Smythe or John Al Lee"
    /\ table.names = <<"John Smith", "John Al Lee", "John  Smythe (Nights)">>
    /\ out.phase = "A"
    /\ out.clean = "john al lee"

-----------------------------------------------------------------------------
(* Claims about the column resolver, checked under SpecStaff *)

Resolved == out.op = "infer_fields_from_text"

\* The text contains an alias phrase of the vocabulary.
PhraseIn(vocabulary, t) == \E i \in 1..Len(vocabulary) : Contains(t, vocabulary[i].k)

\* The field of the first expiry alias, in vocabulary order, the text contains.
ExpiryField(t) ==
    LET at == {i \in 1..Len(explicit_expiry_hits) : Contains(t, explicit_expiry_hits[i].k)}
    IN  explicit_expiry_hits[CHOOSE i \in at : \A j \in at : i <= j].v

\* The columns of the loaded table that are field f but for case and
\* surrounding blanks.
ColumnsFor(f) == {c \in Range(table.columns) : lower(strip(c)) = lower(strip(f))}

NoFieldTwice(fields) ==
    \A i \in 1..Len(fields) : \A j \in (i + 1)..Len(fields) : fields[i] # fields[j]

AreColumns(fields) == \A i \in 1..Len(fields) : fields[i] \in Range(table.columns)

\* C7 as the claim states it: a query with both an expiry alias phrase and a
\* group alias phrase resolves to exactly the one expiry field.
C7_AsStated ==
    Resolved =>
        LET t == lower(query)
        IN  (PhraseIn(explicit_expiry_hits, t) /\ PhraseIn(COLUMN_ALIAS_GROUPS, t))
            => out.fields = <<ExpiryField(t)>>

\* C7: a query with both an expiry alias phrase and a group alias phrase
\* resolves to exactly the one expiry field when that field is a column of
\* the loaded table and to the empty list when it is not; never to the
\* group's fields.
C7_ExpiryOutranksGroup ==
    Resolved =>
        LET t == lower(query)
        IN  (PhraseIn(explicit_expiry_hits, t) /\ PhraseIn(COLUMN_ALIAS_GROUPS, t))
            => IF ColumnsFor(ExpiryField(t)) = {} THEN out.fields = <<>>
               ELSE /\ Len(out.fields) = 1
                    /\ out.fields[1] \in ColumnsFor(ExpiryField(t))

\* 'psa expiry for X' on a table that has both PSA columns: the expiry alone.
C7_Witness ==
    /\ Resolved
    /\ query = "psa expiry for John Smith"
    /\ {"PSA Licence", "PSA Licence exp. DD/MM/YYYY"} \subseteq Range(table.columns)
    /\ out.fields = <<"PSA Licence exp. DD/MM/YYYY">>

\* C8 as the claim states it: the list infer_fields_from_text returns holds
\* no field more than once.
C8_NoDuplicateFields == Resolved => NoFieldTwice(out.fields)

\* C9 as the claim states it: every field returned is a column of the loaded
\* table, and whenever nothing is returned and the query does not mention
\* 'psa' the staff agent answers with the prompt for a field.
C9_AsStated ==
    /\ Resolved => AreColumns(out.fields)
    /\ (Answered /\ ~Contains(lower(query), "psa")
        /\ infer_fields_from_text(StaffDirectory(table), query) = <<>>)
       => out.ans.kind = "prompt"

\* C9: every field infer_fields_from_text returns, and every field the agent
\* prints, is a column of the loaded table; and when the agent has matched an
\* employee, nothing is returned and the query does not mention 'psa', the
\* agent answers with the prompt for a field: it neither raises nor prints.
C9_FieldsAreColumns ==
    /\ Resolved => AreColumns(out.fields)
    /\ Answered => (AreColumns(out.ans.inferred) /\ AreColumns(out.ans.fields))
    /\ (Answered /\ out.ans.clean # "" /\ ~Contains(lower(query), "psa")
        /\ infer_fields_from_text(StaffDirectory(table), query) = <<>>)
       => (out.ans.kind = "prompt" /\ out.ans.fields = <<>>)

\* 'badge for John Smith': the alias's column is not in the table, the
\* employee is, and the agent asks which field is wanted.
C9_Witness ==
    /\ Answered
    /\ query = "badge for John Smith"
    /\ "Received Access Badge" \notin Range(table.columns)
    /\ out.ans.name = "John Smith"
    /\ out.ans.kind = "prompt"

-----------------------------------------------------------------------------
(* Claims about the router, checked under SpecRouter *)

Letters == UpperChars \cup LowerChars

\* A word of 2 to 4 digits followed by one letter.
DoorCode(tok) ==
    /\ Len(tok) \in 3..5
    /\ \A p \in 1..(Len(tok) - 1) : At(tok, p) \in Digits
    /\ At(tok, Len(tok)) \in Letters

\* A capital letter followed by small letters only.
Capitalized(tok) ==
    /\ Len(tok) >= 2
    /\ At(tok, 1) \in UpperChars
    /\ \A p \in 2..Len(tok) : At(tok, p) \in LowerChars

HasDoorCode(q) == \E i \in 1..Len(name_tokens(q)) : DoorCode(name_tokens(q)[i])

HasTwoWordName(q) ==
    LET toks == name_tokens(q)
    IN  \E i \in 1..(Len(toks) - 1) : Capitalized(toks[i]) /\ Capitalized(toks[i + 1])

\* C10: for a query without an explicit prefix the first heuristic that
\* fires, tried door, camera, staff, decides the agent; a query with a door
\* code and a capitalized two-word name goes to the door agent.
C10_RouterPrecedence ==
    out.op = "operations_agent" =>
        LET q == strip(query)
            door   == looks_like_door_query(q)
            camera == looks_like_camera_query(q)
            staff  == looks_like_staff_query(q)
        IN  PrefixAgent(q) = "none" =>
              /\ door => out.agent = "door"
              /\ (~door /\ camera) => out.agent = "camera"
              /\ (~door /\ ~camera /\ staff) => out.agent = "staff"
              /\ (door \/ camera \/ staff) => (out.via = "heuristic" /\ out.passed = q)
              /\ (HasDoorCode(q) /\ HasTwoWordName(q)) => out.agent = "door"

\* '032E John Smith' would pass for a staff query, and goes to the door agent.
C10_Witness ==
    /\ out.op = "operations_agent"
    /\ query = "032E John Smith"
    /\ HasDoorCode(query) /\ HasTwoWordName(query)
    /\ looks_like_staff_query(query)
    /\ out.agent = "door"

-----------------------------------------------------------------------------
(* Claims about the router's prefixes and fallback, checked under SpecRouter *)

\* The prefixes the router's contract names, and the agent each stands for.
PREFIXES ==
    { [text |-> "staff:", agent |-> "staff"],
      [text |-> "camera:", agent |-> "camera"],
      [text |-> "cameras:", agent |-> "camera"],
      [text |-> "door:", agent |-> "door"],
      [text |-> "doors:", agent |-> "door"] }

\* The query begins with the prefix, in any case of letters.
Begins(q, p) == lower(Slice(q, 1, Len(p))) = p

\* C11: a query that starts, in any case of letters, with 'staff:',
\* 'camera:', 'cameras:', 'door:' or 'doors:' is dispatched to exactly that
\* agent with the prefix removed, whatever the rest of the query contains; no
\* heuristic and no fallback is applied.
C11_PrefixOverride ==
    out.op = "operations_agent" =>
        \A p \in PREFIXES :
            Begins(strip(query), p.text) =>
                /\ out.agent = p.agent
                /\ out.via = "prefix"
                /\ out.ran = <<p.agent>>
                /\ out.passed = strip(From(strip(query), Len(p.text) + 1))

\* 'Door:psa John Smith' goes to the door agent as 'psa John Smith', which
\* the heuristics would send to the staff agent.
C11_Witness ==
    /\ out.op = "operations_agent"
    /\ query = "Door:psa John Smith"
    /\ HeuristicAgent(out.passed) = "staff"
    /\ out.agent = "door" /\ out.ran = <<"door">>
    /\ out.passed = "psa John Smith"

\* An agent's reply is its 'no match' message.
NoMatch(reply) == reply.kind = "no_match"

\* The staff agent's answer is its 'no match' message.
StaffNoMatch(ans) == ans.kind = "not_found"

\* C12: when no prefix and no heuristic fires, the door agent, then the
\* camera agent, then the staff agent are called in that order; the first
\* reply that is not the agent's 'no match' message is returned and the later
\* agents are not called; the router's own could-not-determine message is
\* returned exactly when all three report no match.
C12_FallbackOrder ==
    (/\ out.op = "operations_agent"
     /\ PrefixAgent(strip(query)) = "none"
     /\ HeuristicAgent(strip(query)) = "none") =>
        /\ out.via = "fallback" /\ out.passed = strip(query)
        /\ out.ran \in {<<"door">>, <<"door", "camera">>, <<"door", "camera", "staff">>}
        /\ Len(out.ran) >= 2 <=> NoMatch(out.door)
        /\ Len(out.ran) = 3 <=> (NoMatch(out.door) /\ NoMatch(out.cam))
        /\ out.agent = "none" <=>
              (NoMatch(out.door) /\ NoMatch(out.cam) /\ StaffNoMatch(out.ans))
        /\ (~out.raised /\ out.agent # "none") =>
              /\ out.agent = out.ran[Len(out.ran)]
              /\ out.agent = "door" => out.door.kind \in {"rows", "location"}
              /\ out.agent = "camera" => out.cam.kind = "rows"
              /\ out.agent = "staff" => out.ans.kind \notin {"none", "not_found"}

\* 'yard' names no door and a camera: the door agent is asked, the camera
\* agent answers, and the staff agent is not asked.
C12_Witness ==
    /\ out.op = "operations_agent"
    /\ query = "yard"
    /\ HeuristicAgent(query) = "none"
    /\ out.ran = <<"door", "camera">>
    /\ NoMatch(out.door)
    /\ out.agent = "camera" /\ out.cam.kind = "rows"
    /\ out.ans = NoAns

-----------------------------------------------------------------------------
(* Claims about the door and camera lookups, checked under SpecLookup *)

\* The first run of digits in s ("": none).
RECURSIVE FirstDigits(_)
FirstDigits(s) ==
    IF Len(s) = 0 THEN ""
    ELSE IF At(s, 1) \in Digits THEN Slice(s, 1, SkipRun(s, 1, Digits) - 1)
    ELSE FirstDigits(From(s, 2))

SiteTokens == {"ppk1", "ppk 1", "ppk2", "ppk 2"}

\* The query after the site token in front of it, if there is one.
AfterSite(q) ==
    LET s == strip(q)
    IN  IF \E t \in SiteTokens : Begins(s, t)
        THEN From(s, Len(CHOOSE t \in SiteTokens : Begins(s, t)) + 1)
        ELSE s

\* The digits the user typed for the camera.
TypedDigits(q) == FirstDigits(AfterSite(q))

\* C13: for every camera query that contains digits, the camera number of
\* every returned record is exactly the digits the user typed, never a number
\* parsed from the row's text, also when a site token such as 'ppk2' or
\* 'ppk 2' stands in front of the number.
C13_NumberIsTypedDigits ==
    (out.op = "search" /\ TypedDigits(query) # "") =>
        \A i \in 1..Len(out.cam.rows) : out.cam.rows[i].number = TypedDigits(query)

\* The words of a location query that count: the runs of letters, digits and
\* underscores that are no stopwords, split at underscores, without words
\* of one character.
QueryTokens(q) == extract_tokens(lower(strip(q)))

\* The three normalized fields of the door rows doors._load_all() holds.
DoorRows == doors_load_all(env, sheets).rows

Fields(r) == <<r.door_norm, r.desc_norm, r.loc_norm>>

RowText(r) == r.door_norm \o " " \o r.desc_norm \o " " \o r.loc_norm

\* (a) the query phrase, blanks for underscores or underscores for blanks,
\* occurs in the row's normalized text
PhraseOccurs(r, q) ==
    LET phrase == lower(strip(q))
    IN  \/ Contains(RowText(r), UnderscoreRunsToBlank(phrase))
        \/ Contains(RowText(r), WhitespaceToUnderscore(phrase))

\* (b) every token occurs in one single field
AllInOneField(r, q) ==
    \E f \in 1..3 : \A i \in 1..Len(QueryTokens(q)) : Contains(Fields(r)[f], QueryTokens(q)[i])

\* (c) at least max(2, token_count - 1) tokens occur in the three fields together
EnoughInAll(r, q) ==
    LET n    == Len(QueryTokens(q))
        need == IF n - 1 >= 2 THEN n - 1 ELSE 2
    IN  Cardinality({i \in 1..n : Contains(RowText(r), QueryTokens(q)[i])}) >= need

Accepted(r, q) == PhraseOccurs(r, q) \/ AllInOneField(r, q) \/ EnoughInAll(r, q)

\* The door, description, location and tab of the rows the sequence holds
Shown(rows) == DoorRecords(rows, Len(rows))

-----------------------------------------------------------------------------
(* Claims about the agents on their sources, checked under SpecSources *)

AgentOps == {"staff_directory_agent", "camera_agent", "doors_agent"}

\* C15: for each of the staff, camera and door agents and each of the
\* context values refresh = '1', 'true', 'yes', the agent invalidates its
\* table cache before it reads the table, so the answer is computed from a
\* table loaded during that call; for any other refresh value or none the
\* cache is left untouched: a table it holds is the one the call is served.
C15_RefreshInvalidates ==
    out.op \in AgentOps =>
        /\ RefreshOf(out.refresh, "") \in TRUTHY =>
              /\ out.served.invoked
              /\ ~out.raised => out.served.table = Table(out.served.at)
        /\ (RefreshOf(out.refresh, "") \notin TRUTHY /\ out.served.held) =>
              ~out.served.invoked

\* The workbooks without the tabs whose read fails.
Surviving ==
    [doors |-> SelectSeq(sheets.doors, LAMBDA ws : ws.ok),
     cams |-> [s \in {"PPK1", "PPK2"} |->
                  IF sheets.cams[s].ok THEN sheets.cams[s] ELSE NoTab(s)]]

AllTabsFail(op) ==
    IF op = "doors_agent" THEN \A i \in 1..Len(sheets.doors) : ~sheets.doors[i].ok
    ELSE \A s \in {"PPK1", "PPK2"} : ~sheets.cams[s].ok

\* C16: with the configuration complete, a tab of the door workbook or of the
\* camera workbooks whose load fails is skipped and the agent answers from
\* the rows of the remaining tabs; when every tab fails the agent answers
\* 'no match' and does not raise.
C16_FailedTabsSkipped ==
    (out.op \in {"doors_agent", "camera_agent"} /\ env = EnvOk) =>
        /\ ~out.raised
        /\ out.op = "doors_agent" =>
              out.door = doors_reply(doors_load_all(env, Surviving).rows, query)
        /\ out.op = "camera_agent" =>
              \E keeps_index \in BOOLEAN :
                 out.cam = camera_reply(load_all(env, Surviving).df, query, keeps_index)
        /\ AllTabsFail(out.op) =>
              (IF out.op = "doors_agent" THEN out.door.kind ELSE out.cam.kind) = "no_match"

\* A value the agent's source requires is missing from the configuration.
MissingConfig(op) ==
    IF op = "staff_directory_agent" THEN ~env.csv
    ELSE IF op = "camera_agent" THEN ~env.cred \/ ~env.CAM_PPK1_SHEET_ID
    ELSE ~env.cred \/ ~env.DOORS_SHEET_ID

\* C17: missing required configuration (no sheet id, no credentials path, no
\* CSV file) always surfaces as a raised error from the agent's call, never
\* as an empty table or a 'no match' answer, for the staff, the camera and
\* the door agent.
C17_MissingConfigRaises ==
    (out.op \in AgentOps /\ MissingConfig(out.op)) => out.raised

-----------------------------------------------------------------------------
(* Claims about what the router hands on, checked under SpecRouter *)

\* C18: for every query, the empty one included, against successfully loaded
\* tables no agent raises and the router passes no exception on; when
\* nothing matches the camera agent answers 'No matching cameras.' and the
\* door agent a 'No matching doors' text.
C18_NoMatchIsText ==
    out.op = "operations_agent" =>
        /\ ~out.raised
        /\ \A i \in 1..Len(out.ran) :
              /\ out.ran[i] = "door" =>
                    /\ out.door.kind \in {"no_match", "rows", "location"}
                    /\ NoMatch(out.door) => Contains(out.door.text, "No matching doors")
              /\ out.ran[i] = "camera" =>
                    /\ out.cam.kind \in {"no_match", "rows"}
                    /\ NoMatch(out.cam) => out.cam.text = "No matching cameras."
              /\ out.ran[i] = "staff" => out.ans.kind \notin {"none", "raise"}

\* The query is a number and nothing else.
BareNumber(q) == Len(q) > 0 /\ \A i \in 1..Len(q) : At(q, i) \in Digits

\* C19: every bare number of 1, 2, 3 or 4 digits is dispatched to the camera
\* agent by the camera heuristic, and a bare number of 5 or more digits is
\* not classified as a camera query by this rule.
C19_ShortNumberToCamera ==
    (out.op = "operations_agent" /\ BareNumber(strip(query))) =>
        IF Len(strip(query)) <= 4
        THEN out.agent = "camera" /\ out.via = "heuristic" /\ out.ran = <<"camera">>
        ELSE ~(out.agent = "camera" /\ out.via = "heuristic")

-----------------------------------------------------------------------------
(* Claims about the resolver's expiry rule, checked under SpecStaff *)

\* C20: for every expiry alias phrase k of the vocabulary, a query
\* consisting of k followed by a name resolves to exactly the column k maps
\* to, on a table that has this column: 'first aid expiry for X' resolves to
\* the first-aid expiry column and 'psa expiry for X' to the PSA expiry
\* column.
C20_ExpiryPhraseField ==
    Resolved =>
        \A i \in 1..Len(explicit_expiry_hits) : \A n \in FieldNames :
            (/\ query = explicit_expiry_hits[i].k \o " for " \o n
             /\ ColumnsFor(explicit_expiry_hits[i].v) # {}) =>
                /\ Len(out.fields) = 1
                /\ out.fields[1] \in ColumnsFor(explicit_expiry_hits[i].v)

-----------------------------------------------------------------------------
(* The freshness of what ttl_cache returns, checked under SpecCache *)

\* The age of the table the last load returned: the time from the start of
\* the loader invocation that produced it to the call that returned it.
Age == last.at - last.result

\* C21: in single-threaded use of ttl_cache, after any sequence of loads,
\* invalidations, time advances and loader failures, every table a load
\* returns was produced by a loader invocation that started no more than
\* ttl_seconds before the call that returns it.
C21_FreshnessBound ==
    (LastLoad("ttl") /\ last.result # None) =>
        /\ Age >= 0
        /\ Age <= ttl_seconds

\* The load that opened the TTL window raised, a later load filled the cache,
\* and a load exactly ttl_seconds after the window opened is served that
\* table.
C21_Witness ==
    /\ LastLoad("ttl")
    /\ ~last.invoked
    /\ last.pre_t < last.result
    /\ last.at - last.pre_t = ttl_seconds
    /\ last.result = PreTable

-----------------------------------------------------------------------------
(* Claims about the router's heuristics, checked under SpecRouter *)

\* A heuristic fires: the query has no prefix and looks like a door, a
\* camera or a staff query.
HeuristicFires(q) == PrefixAgent(q) = "none" /\ HeuristicAgent(q) # "none"

\* The agent was not called: its loader's cache is as the process started it
\* and the call holds no reply of it.
NotCalled(a) ==
    /\ a = "door" => (loaders.doors = Fresh /\ out.door = NoReply)
    /\ a = "camera" => (loaders.cameras = Fresh /\ out.cam = NoReply)
    /\ a = "staff" => (load_df_cached = <<>> /\ out.ans = NoAns)

\* The agent was called once at the time of the call: its loader was invoked
\* and its cache holds the table read then.
CalledOnce(a) ==
    /\ a = "door" => Holds(loaders.doors, now)
    /\ a = "camera" => Holds(loaders.cameras, now)
    /\ a = "staff" => LruHas(load_df_cached, Bucket(now))

\* The reply the call holds of the agent is what the agent answers on the
\* text q and the loaded tables.
AnswersOn(a, q) ==
    /\ a = "door" => out.door = doors_reply(doors_load_all(env, sheets).rows, q)
    /\ a = "camera" =>
          \E keeps_index \in BOOLEAN :
              out.cam = camera_reply(load_all(env, sheets).df, q, keeps_index)
    /\ a = "staff" => out.ans = StaffAnswer(table, q)

\* The agent's answer is its 'no match' message.
AnsweredNoMatch(a) ==
    \/ a = "door" /\ NoMatch(out.door)
    \/ a = "camera" /\ NoMatch(out.cam)
    \/ a = "staff" /\ StaffNoMatch(out.ans)

\* The agent's call raised instead of answering.
AnsweredRaising(a) ==
    \/ a = "door" /\ out.door.kind = "raise"
    \/ a = "camera" /\ out.cam.kind = "raise"
    \/ a = "staff" /\ out.ans.kind = "raise"

\* The query holds one number, of three digits and standing alone.
HasBareThreeDigits(q) ==
    LET toks == name_tokens(q)
        Numbered(tok) == \E p \in 1..Len(tok) : At(tok, p) \in Digits
    IN  /\ \E i \in 1..Len(toks) : Len(toks[i]) = 3 /\ BareNumber(toks[i])
        /\ \A i, j \in 1..Len(toks) : (Numbered(toks[i]) /\ Numbered(toks[j])) => i = j

\* C22: when a heuristic fires, exactly one agent is called, the one the
\* heuristic names, on the whole query, and what it answers is what the
\* router returns, also when the answer is the agent's 'no match' message;
\* the fallback chain is not entered and the other two agents are not
\* called; the call raises exactly when that one agent raises.  A query
\* with a capitalized two-word name and a bare three-digit number that does
\* not look like a door query is answered by the camera agent alone.
C22_HeuristicRunsOneAgent ==
    (out.op = "operations_agent" /\ HeuristicFires(strip(query))) =>
        /\ out.via = "heuristic"
        /\ out.agent = HeuristicAgent(strip(query))
        /\ out.ran = <<out.agent>>
        /\ out.passed = strip(query)
        /\ CalledOnce(out.agent)
        /\ AnswersOn(out.agent, strip(query))
        /\ out.raised <=> AnsweredRaising(out.agent)
        /\ \A a \in {"door", "camera", "staff"} \ {out.agent} : NotCalled(a)
        /\ (/\ HasTwoWordName(strip(query))
            /\ HasBareThreeDigits(strip(query))
            /\ ~looks_like_door_query(strip(query))) => out.agent = "camera"

\* '204 John Smith' names an employee of the table and no camera: the camera
\* heuristic fires, the camera agent answers 'No matching cameras.', which is
\* returned, and neither the door nor the staff agent is asked.
C22_Witness ==
    /\ out.op = "operations_agent"
    /\ query = "204 John Smith"
    /\ HasTwoWordName(query) /\ HasBareThreeDigits(query)
    /\ StaffAnswer(table, query).kind \notin {"none", "not_found"}
    /\ out.agent = "camera" /\ out.via = "heuristic" /\ out.ran = <<"camera">>
    /\ AnsweredNoMatch("camera")
    /\ out.cam.text = "No matching cameras."
    /\ NotCalled("door") /\ NotCalled("staff")

====
